---- MODULE Spec2Model ----
\* The application lifecycle supervisor of rootfs/opt/app-manager/app-manager.py:
\* the control API thread (start / stop / restart / status / health), the health
\* monitor thread, the PID records and the operating system's processes.
EXTENDS Integers, Sequences, FiniteSets, TLC

\* ---------------------------------------------------------------- bounds
\* Number of entries in the apps list of the global manifest.
MaxEntries == 2
\* Number of connections clients make to the control socket in one run.
MaxConns == 2
\* Number of process identifiers the operating system hands out in one run.
MaxPid == 2
\* The clock is observed from 1 up to MaxTime seconds and stays there afterwards.
MaxTime == 2

\* ------------------------------------------------------------- constants
HEALTH_CHECK_INTERVAL == 10
START_TIMEOUT == 60
STOP_TIMEOUT == 30
GRACE_PERIOD == 2
SETTLE_TIME == 1
DEFAULT_EXPECTED_STATUS == 200

\* The application the requests name.
App == "web"

VARIABLES
    apps,          \* the registry: name -> [manifest, last_health, start_time]
    running,       \* the global flag cleared by signal_handler
    pidfile,       \* RUN_DIR/<App>.pid: [exists, text]
    procs,         \* the process table: procs[p] is TRUE while PID p is live
    startScripts,  \* names with a script startup.d/*-<name>.sh
    stopScripts,   \* names with a script shutdown.d/*-<name>.sh
    now,           \* time.time(), in seconds
    api,           \* the control API thread: its position and locals
    ev,            \* what the API thread did for the request in hand, in order
    resp,          \* the response of the request in hand
    mon,           \* the monitor thread: its position and locals
    last,          \* "start: success" from a start that succeeded to the end of the
                   \* request after it, if that is a start
    main,          \* the main thread: its position in main() and its locals
    srv,           \* the UnixSocketHTTPServer object and the position of its thread
    client,        \* what the client of the control socket has done
    disk,          \* the manifest files and the script directories
    ran            \* the scripts the batch in hand has executed, in order

vars == <<apps, running, pidfile, procs, startScripts, stopScripts, now, api, ev,
          resp, mon, last, main, srv, client, disk, ran>>

\* What the control API's handlers and the monitor's poll leave alone.
boot == <<main, srv, client, disk, ran>>

\* ------------------------------------------------------- Python values
\* Optional values: None, or a one-element tuple holding the value.
None == <<>>
Some(v) == <<v>>

\* dict.get(key, default)
Get(d, k, default) == IF k \in DOMAIN d THEN d[k] ELSE default

\* Python truth of an Optional number: None and 0 are false.
Truthy(x) == x # None /\ x[1] # 0

Min(a, b) == IF a <= b THEN a ELSE b

\* ------------------------------------------------ text of the PID record
\* A text is a sequence of one-character strings.
Digits == <<"0", "1", "2", "3", "4", "5", "6", "7", "8", "9">>
IsDigit(c) == \E i \in 1..10 : Digits[i] = c
DigitVal(c) == (CHOOSE i \in 1..10 : Digits[i] = c) - 1
IsSpace(c) == c \in {" ", "\n", "\t", "\r"}

RECURSIVE LStrip(_)
LStrip(s) == IF s # <<>> /\ IsSpace(Head(s)) THEN LStrip(Tail(s)) ELSE s

RECURSIVE RStrip(_)
RStrip(s) ==
    IF s # <<>> /\ IsSpace(s[Len(s)]) THEN RStrip(SubSeq(s, 1, Len(s) - 1)) ELSE s

\* str.strip()
strip(s) == RStrip(LStrip(s))

RECURSIVE DigitsValue(_)
DigitsValue(s) ==
    IF s = <<>> THEN 0
    ELSE 10 * DigitsValue(SubSeq(s, 1, Len(s) - 1)) + DigitVal(s[Len(s)])

\* int(text): None stands for ValueError.
int(s) ==
    LET t == strip(s)
        signed == t # <<>> /\ Head(t) \in {"+", "-"}
        body == IF signed THEN Tail(t) ELSE t
    IN  IF body = <<>> \/ \E i \in 1..Len(body) : ~IsDigit(body[i]) THEN None
        ELSE IF signed /\ Head(t) = "-" THEN Some(0 - DigitsValue(body))
        ELSE Some(DigitsValue(body))

RECURSIVE str(_)
\* str(n) of a natural number
str(n) == IF n < 10 THEN <<Digits[n + 1]>> ELSE str(n \div 10) \o <<Digits[(n % 10) + 1]>>

\* What a start script leaves in the PID record: echo $! > <App>.pid
PidText(p) == str(p) \o <<"\n">>

\* A PID record whose content is no number.
GarbageText == <<"x", "\n">>

NoFile == [exists |-> FALSE, text |-> <<>>]
File(t) == [exists |-> TRUE, text |-> t]

\* ------------------------------------------------------ liveness probes
\* os.kill(pid, 0) succeeds in process table pt
AliveIn(pt, p) == p \in 1..Len(pt) /\ pt[p]

Alive(p) == AliveIn(procs, p)

\* os.kill(pid, 0) at line 142 returns, for a pid of 0 or more: pid 0 stands for
\* the process group of the caller, which always has a member; any other pid
\* must be a live process, or ProcessLookupError is raised. (PID records below
\* 0, which name other process groups, are not among the records drawn.)
kill0(pt, p) == p = 0 \/ AliveIn(pt, p)

\* A PID record that holds the number 0.
ZeroText == <<"0", "\n">>

\* The largest number os.kill takes for a pid: pid_t is a C int.
PID_T_MAX == 2147483647

\* The text without its leading zeros.
RECURSIVE StripZeros(_)
StripZeros(s) == IF s # <<>> /\ Head(s) = "0" THEN StripZeros(Tail(s)) ELSE s

\* The digits of body spell a number greater than max.
Exceeds(body, max) ==
    LET b == StripZeros(body)
        m == str(max)
    IN  \/ Len(b) > Len(m)
        \/ /\ Len(b) = Len(m)
           /\ \E i \in 1..Len(b) :
                 /\ SubSeq(b, 1, i - 1) = SubSeq(m, 1, i - 1)
                 /\ DigitVal(b[i]) > DigitVal(m[i])

\* get_pid, lines 137-145: the PID record parses as a number that is no pid_t;
\* os.kill raises OverflowError, which is none of the exceptions get_pid catches.
GetPidRaises(pf) ==
    /\ pf.exists
    /\ LET t == strip(pf.text)
           signed == t # <<>> /\ Head(t) \in {"+", "-"}
           body == IF signed THEN Tail(t) ELSE t
       IN  /\ body # <<>>
           /\ \A i \in 1..Len(body) : IsDigit(body[i])
           /\ Exceeds(body, PID_T_MAX)

\* A PID record whose number is no pid_t.
OverflowText == <<"9", "9", "9", "9", "9", "9", "9", "9", "9", "9", "9", "\n">>

\* get_pid(app_name) reading PID record pf with process table pt, where it
\* returns: the PID of the record if it parses and names a live process.
GetPid(pf, pt) ==
    IF ~pf.exists THEN None
    ELSE LET v == int(pf.text)
         IN  IF v = None THEN None
             ELSE IF kill0(pt, v[1]) THEN v
             ELSE None

get_pid(n) == GetPid(pidfile, procs)

is_running(n) == get_pid(n) # None

\* The live processes of the application.
LiveProcs == {p \in 1..Len(procs) : procs[p]}


\* ------------------------------------------------------------- registry
EmptyDict == [k \in {} |-> TRUE]

\* The per-application manifests the registry is loaded from: no health section,
\* or a health section of each kind, with and without expected_status.
Manifests ==
    { EmptyDict,
      [health |-> [type |-> "process"]],
      [health |-> [type |-> "tcp"]],
      [health |-> [type |-> "http"]],
      [health |-> [type |-> "http", expected_status |-> 404]] }

\* The runtime record main() registers for an application.
NewRecord(m) ==
    [manifest |-> m, last_health |-> [status |-> "unknown"], start_time |-> None]

\* for app_name in apps
AppOrder == IF App \in DOMAIN apps THEN <<App>> ELSE <<>>

\* get_app_status(app_name) reading PID record pf, process table pt and clock t
StatusOf(n, pf, pt, t) ==
    IF n \notin DOMAIN apps THEN [error |-> "App not found"]
    ELSE LET app == apps[n]
             pid == GetPid(pf, pt)
             run == pid # None
             uptime_seconds ==
                 IF run /\ Truthy(app.start_time) THEN t - app.start_time[1] ELSE 0
         IN  [name |-> n,
              status |-> IF run THEN "running" ELSE "stopped",
              pid |-> pid,
              health |-> app.last_health,
              uptime_seconds |-> uptime_seconds]

get_app_status(n) == StatusOf(n, pidfile, procs, now)

\* ----------------------------------------------------- external scripts
\* What running a start script can come to: it exits with a return code, is killed
\* at its timeout, or cannot be executed; it may have brought up a process of the
\* application and may have written the PID record.
StartOutcomes ==
    { o \in [kind : {"exit", "timeout", "error"}, returncode : {0, 1},
             spawn : BOOLEAN, write : BOOLEAN] :
        /\ (o.kind # "exit" => o.returncode = 1)
        /\ (o.kind = "error" => ~o.spawn)
        /\ (o.write => o.spawn) }

\* What running a stop script can come to: it may have ended the application's
\* processes and may have removed the PID record.
StopOutcomes ==
    { o \in [kind : {"exit", "timeout", "error"}, returncode : {0, 1},
             kill : BOOLEAN, remove : BOOLEAN] :
        /\ (o.kind # "exit" => o.returncode = 1)
        /\ (o.kind = "error" => ~o.kill /\ ~o.remove) }

\* time.sleep(d)
Sleep(d) == Min(now + d, MaxTime)

\* --------------------------------------------------------------- health
StatusCodes == {200, 204, 404}

\* What the HTTP GET of a health check can meet: a response with a status line,
\* a refused connection or a timeout.
HttpOutcomes ==
    [kind : {"response"}, code : StatusCodes, reason : {"", "reason phrase"}]
        \cup {[kind |-> "refused"], [kind |-> "timeout"]}

\* What connect_ex() can return (0, ECONNREFUSED, EAGAIN), or it raises.
TcpOutcomes == [kind : {"errno"}, errno : {0, 111, 11}] \cup {[kind |-> "raise"]}

\* check_health_http(app_name, config) meeting outcome o. urlopen() returns the
\* response for a 2xx status and raises HTTPError, a URLError whose reason is the
\* status line's reason phrase, for the others.
check_health_http(app_name, config, o) ==
    LET expected == Get(config, "expected_status", DEFAULT_EXPECTED_STATUS)
    IN  IF o.kind = "response" /\ o.code \in 200..299
        THEN IF o.code = expected
             THEN [status |-> "healthy", response_time_ms |-> 0, status_code |-> o.code]
             ELSE [status |-> "unhealthy", response_time_ms |-> 0,
                   status_code |-> o.code, error |-> "Expected {expected}, got {status_code}"]
        ELSE IF o.kind = "response" THEN [status |-> "unhealthy", error |-> o.reason]
        ELSE IF o.kind = "refused"
        THEN [status |-> "unhealthy", error |-> "[Errno 111] Connection refused"]
        ELSE [status |-> "unhealthy", error |-> "timed out"]

\* check_health_tcp(app_name, config) meeting outcome o
check_health_tcp(app_name, config, o) ==
    IF o.kind = "errno"
    THEN IF o.errno = 0
         THEN [status |-> "healthy", response_time_ms |-> 0]
         ELSE [status |-> "unhealthy", error |-> "Connection refused"]
    ELSE [status |-> "unhealthy", error |-> "timed out"]

\* the process check answering healthy without its own liveness probe
check_health_process_NoProbe(app_name, config) == [status |-> "healthy"]

\* check_health_process(app_name, config)
check_health_process(app_name, config) ==
    IF is_running(app_name)
    THEN [status |-> "healthy"]
    ELSE [status |-> "unhealthy", error |-> "Process not running"]

\* check_app_health short-circuiting to stopped for the process kind only
check_app_health_early_ProcessOnly(app_name) ==
    IF app_name \notin DOMAIN apps
    THEN Some([status |-> "unknown", error |-> "App not found"])
    ELSE IF ~is_running(app_name)
            /\ Get(Get(Get(apps[app_name], "manifest", EmptyDict), "health", EmptyDict),
                   "type", "process") \notin {"http", "tcp"}
    THEN Some([status |-> "stopped"])
    ELSE None

\* check_app_health(app_name) up to its liveness probe: the result it returns
\* there, or None when it goes on to the probe of the declared kind.
check_app_health_early(app_name) ==
    IF app_name \notin DOMAIN apps
    THEN Some([status |-> "unknown", error |-> "App not found"])
    ELSE IF ~is_running(app_name) THEN Some([status |-> "stopped"])
    ELSE None

health_config(app_name) == Get(Get(apps[app_name], "manifest", EmptyDict), "health", EmptyDict)

health_type(app_name) == Get(health_config(app_name), "type", "process")

\* The probe check_app_health dispatches to, by the declared kind.
ProbeKind(app_name) ==
    IF health_type(app_name) = "http" THEN "http"
    ELSE IF health_type(app_name) = "tcp" THEN "tcp"
    ELSE "process"

\* What the probe of the declared kind can meet in this state: for the process
\* kind, whether the recorded PID is live at that moment.
ProbeOutcomes(app_name) ==
    IF ProbeKind(app_name) = "http" THEN HttpOutcomes
    ELSE IF ProbeKind(app_name) = "tcp" THEN TcpOutcomes
    ELSE {[kind |-> "process", alive |-> is_running(app_name)]}

\* What check_app_health returns from its probe meeting outcome o.
ProbeResult(app_name, o) ==
    IF ProbeKind(app_name) = "http"
    THEN check_health_http(app_name, health_config(app_name), o)
    ELSE IF ProbeKind(app_name) = "tcp"
    THEN check_health_tcp(app_name, health_config(app_name), o)
    ELSE check_health_process(app_name, health_config(app_name))

\* ----------------------------------------------------- the API thread
Ops == {"start", "stop", "restart", "status", "health"}

\* The thread between two connections. Besides its position it keeps, for the
\* request in hand: the PID stop_app read at line 265, what stop_app and start_app
\* returned, the outcome its health probe met, and for a restart the time and the
\* recorded PID at its beginning.
Idle == [pc |-> "idle", op |-> "", pid |-> None, stop_result |-> None,
         start_result |-> None, outcome |-> EmptyDict, t0 |-> 0, old_pid |-> None,
         request |-> <<>>]

NoResp == EmptyDict

Do(e) == ev \o <<e>>

OutcomeName(o) ==
    IF o.kind = "exit" THEN (IF o.returncode = 0 THEN "exit 0" ELSE "exit 1") ELSE o.kind

\* _handle_connection: a request for App is accepted and dispatched.
ApiAccept(op) ==
    /\ api.pc = "idle"
    /\ api' = [Idle EXCEPT
                 !.pc = CASE op \in {"stop", "restart"} -> "stop_app"
                          [] op = "start" -> "start_app"
                          [] op = "status" -> "get_status"
                          [] OTHER -> "check_health",
                 !.op = op,
                 !.t0 = IF op = "restart" THEN now ELSE 0,
                 !.old_pid = IF op = "restart" THEN get_pid(App) ELSE None]
    /\ ev' = <<>>
    /\ resp' = NoResp
    /\ last' = IF op = "start" THEN last ELSE ""
    /\ UNCHANGED <<apps, running, pidfile, procs, startScripts, stopScripts, boot, now, mon>>

\* restart_app returning failure when either step failed
restart_app_AndsStop(stop_result, start_result) == stop_result /\ start_result

\* restart_app, lines 283-285: what it returns, given what stop_app and start_app
\* returned.
restart_app(stop_result, start_result) == start_result

\* start_app returns r: to do_POST (lines 488-489), or to restart_app (line 285)
\* and from there to do_POST (lines 498-499), which answers with success and the
\* status summary.
StartReturn(r) ==
    /\ api' = [api EXCEPT !.pc = "done", !.start_result = Some(r)]
    /\ resp' = [success |-> IF api.op = "restart"
                            THEN restart_app(api.stop_result[1], r) ELSE r,
                status |-> StatusOf(App, pidfile', procs', now')]

\* stop_app returns r: to do_POST (lines 493-494), which answers with success and
\* the status summary, or to restart_app (line 283).
StopReturn(r) ==
    IF api.op = "restart"
    THEN /\ api' = [api EXCEPT !.pc = "restart_sleep", !.stop_result = Some(r)]
         /\ resp' = resp
    ELSE /\ api' = [api EXCEPT !.pc = "done", !.stop_result = Some(r)]
         /\ resp' = [success |-> r, status |-> StatusOf(App, pidfile', procs', now')]

\* start_app without its liveness check: the script is looked for and run even when
\* the application is running
StartApp_NoLivenessCheck ==
    /\ api.pc = "start_app"
    /\ UNCHANGED <<apps, running, pidfile, procs, startScripts, stopScripts, boot, now, mon,
                   last>>
    /\ IF App \notin startScripts
       THEN /\ ev' = Do("start_app: not running") \o <<"error: No startup script found">>
            /\ StartReturn(FALSE)
       ELSE /\ ev' = Do("start_app: not running")
            /\ api' = [api EXCEPT !.pc = "start_script"]
            /\ resp' = resp

\* start_app, lines 215-226: the liveness check and the search for the script.
StartApp ==
    /\ api.pc = "start_app"
    /\ UNCHANGED <<apps, running, pidfile, procs, startScripts, stopScripts, boot, now, mon,
                   last>>
    /\ IF is_running(App)
       THEN /\ ev' = Do("start_app: already running")
            /\ StartReturn(TRUE)
       ELSE IF App \notin startScripts
       THEN /\ ev' = Do("start_app: not running") \o <<"error: No startup script found">>
            /\ StartReturn(FALSE)
       ELSE /\ ev' = Do("start_app: not running")
            /\ api' = [api EXCEPT !.pc = "start_script"]
            /\ resp' = resp

\* start_app taking every script that exits for a success, whatever its return code
StartScript_IgnoresReturnCode(o) ==
    /\ api.pc = "start_script"
    /\ o.spawn => Len(procs) < MaxPid
    /\ procs' = IF o.spawn THEN Append(procs, TRUE) ELSE procs
    /\ pidfile' = IF o.write THEN File(PidText(Len(procs) + 1)) ELSE pidfile
    /\ ev' = Do("start_script: " \o OutcomeName(o))
    /\ UNCHANGED <<apps, running, startScripts, stopScripts, boot, now, mon, last>>
    /\ StartReturn(o.kind = "exit")

\* start_app, lines 228-243: the start script runs and comes to outcome o; only
\* a return code of 0 is a success.
StartScript(o) ==
    /\ api.pc = "start_script"
    /\ o.spawn => Len(procs) < MaxPid
    /\ procs' = IF o.spawn THEN Append(procs, TRUE) ELSE procs
    /\ pidfile' = IF o.write THEN File(PidText(Len(procs) + 1)) ELSE pidfile
    /\ ev' = Do("start_script: " \o OutcomeName(o))
    /\ UNCHANGED <<apps, running, startScripts, stopScripts, boot, now, mon, last>>
    /\ StartReturn(o.kind = "exit" /\ o.returncode = 0)

\* stop_app without its liveness check
StopApp_NoLivenessCheck ==
    /\ api.pc = "stop_app"
    /\ UNCHANGED <<apps, running, pidfile, procs, startScripts, stopScripts, boot, now, mon,
                   last>>
    /\ ev' = Do(IF is_running(App) THEN "stop_app: running" ELSE "stop_app: not running")
    /\ api' = [api EXCEPT !.pc = IF App \in stopScripts THEN "stop_script"
                                 ELSE "stop_get_pid"]
    /\ resp' = resp

\* stop_app going straight to the kill by PID, never looking for a stop script
StopApp_SkipsScript ==
    /\ api.pc = "stop_app"
    /\ UNCHANGED <<apps, running, pidfile, procs, startScripts, stopScripts, boot, now, mon,
                   last>>
    /\ IF ~is_running(App)
       THEN /\ ev' = Do("stop_app: not running")
            /\ StopReturn(TRUE)
       ELSE /\ ev' = Do("stop_app: running")
            /\ api' = [api EXCEPT !.pc = "stop_get_pid"]
            /\ resp' = resp

\* stop_app, lines 248-257: the liveness check and the search for the script.
StopApp ==
    /\ api.pc = "stop_app"
    /\ UNCHANGED <<apps, running, pidfile, procs, startScripts, stopScripts, boot, now, mon,
                   last>>
    /\ IF ~is_running(App)
       THEN /\ ev' = Do("stop_app: not running")
            /\ StopReturn(TRUE)
       ELSE /\ ev' = Do("stop_app: running")
            /\ api' = [api EXCEPT !.pc = IF App \in stopScripts THEN "stop_script"
                                         ELSE "stop_get_pid"]
            /\ resp' = resp

\* stop_app, lines 258-262: the stop script runs and comes to outcome o. A script
\* that exits, with any return code, ends stop_app; a timeout or an execution
\* error is logged and falls through to the kill by PID.
StopScript(o) ==
    /\ api.pc = "stop_script"
    /\ procs' = IF o.kill THEN [p \in 1..Len(procs) |-> FALSE] ELSE procs
    /\ pidfile' = IF o.remove THEN NoFile ELSE pidfile
    /\ UNCHANGED <<apps, running, startScripts, stopScripts, boot, now, mon, last>>
    /\ IF o.kind = "exit"
       THEN /\ ev' = Do("stop_script: " \o OutcomeName(o))
            /\ StopReturn(TRUE)
       ELSE /\ ev' = Do("stop_script: " \o OutcomeName(o))
                        \o <<"warning: Shutdown script failed">>
            /\ api' = [api EXCEPT !.pc = "stop_get_pid"]
            /\ resp' = resp

\* stop_app, lines 265-266: pid = get_pid(app_name); if pid:
StopGetPid ==
    /\ api.pc = "stop_get_pid"
    /\ ev' = Do("get_pid")
    /\ UNCHANGED <<apps, running, pidfile, procs, startScripts, stopScripts, boot, now, mon,
                   last>>
    /\ IF Truthy(get_pid(App))
       THEN /\ api' = [api EXCEPT !.pc = "stop_sigterm", !.pid = get_pid(App)]
            /\ resp' = resp
       ELSE StopReturn(TRUE)

\* stop_app, line 268: os.kill(pid, SIGTERM); ProcessLookupError is caught at 274.
StopSigterm ==
    /\ api.pc = "stop_sigterm"
    /\ UNCHANGED <<apps, running, pidfile, procs, startScripts, stopScripts, boot, now, mon,
                   last>>
    /\ IF Alive(api.pid[1])
       THEN /\ ev' = Do("SIGTERM")
            /\ api' = [api EXCEPT !.pc = "stop_grace"]
            /\ resp' = resp
       ELSE /\ ev' = Do("error: Failed to stop")
            /\ StopReturn(FALSE)

\* stop_app, line 269: time.sleep(2)
StopGrace ==
    /\ api.pc = "stop_grace"
    /\ now' = Sleep(GRACE_PERIOD)
    /\ ev' = Do("sleep 2")
    /\ api' = [api EXCEPT !.pc = "stop_recheck"]
    /\ UNCHANGED <<apps, running, pidfile, procs, startScripts, stopScripts, boot, mon, resp,
                   last>>

\* stop_app sending SIGKILL after the grace period without the liveness re-check
StopRecheck_AlwaysKills ==
    /\ api.pc = "stop_recheck"
    /\ UNCHANGED <<apps, running, pidfile, procs, startScripts, stopScripts, boot, now, mon,
                   last>>
    /\ ev' = Do("recheck: alive")
    /\ api' = [api EXCEPT !.pc = "stop_sigkill"]
    /\ resp' = resp

\* stop_app, line 270: if is_running(app_name):
StopRecheck ==
    /\ api.pc = "stop_recheck"
    /\ UNCHANGED <<apps, running, pidfile, procs, startScripts, stopScripts, boot, now, mon,
                   last>>
    /\ IF is_running(App)
       THEN /\ ev' = Do("recheck: alive")
            /\ api' = [api EXCEPT !.pc = "stop_sigkill"]
            /\ resp' = resp
       ELSE /\ ev' = Do("recheck: gone")
            /\ StopReturn(TRUE)

\* stop_app, line 271: os.kill(pid, SIGKILL); ProcessLookupError is caught at 274.
StopSigkill ==
    /\ api.pc = "stop_sigkill"
    /\ UNCHANGED <<apps, running, pidfile, startScripts, stopScripts, boot, now, mon, last>>
    /\ IF Alive(api.pid[1])
       THEN /\ procs' = [procs EXCEPT ![api.pid[1]] = FALSE]
            /\ ev' = Do("SIGKILL")
            /\ StopReturn(TRUE)
       ELSE /\ procs' = procs
            /\ ev' = Do("error: Failed to stop")
            /\ StopReturn(FALSE)

\* restart_app, line 284: time.sleep(1), then start_app
RestartSleep ==
    /\ api.pc = "restart_sleep"
    /\ now' = Sleep(SETTLE_TIME)
    /\ ev' = Do("sleep 1")
    /\ api' = [api EXCEPT !.pc = "start_app"]
    /\ UNCHANGED <<apps, running, pidfile, procs, startScripts, stopScripts, boot, mon, resp,
                   last>>

\* do_GET, lines 475-478: GET /apps/<name>
ApiStatus ==
    /\ api.pc = "get_status"
    /\ resp' = get_app_status(App)
    /\ api' = [api EXCEPT !.pc = "done"]
    /\ UNCHANGED <<apps, running, pidfile, procs, startScripts, stopScripts, boot, now, mon, ev,
                   last>>

\* do_GET, lines 470-473, in check_app_health lines 362-368: the registry lookup
\* and the liveness probe.
ApiCheckHealth ==
    /\ api.pc = "check_health"
    /\ UNCHANGED <<apps, running, pidfile, procs, startScripts, stopScripts, boot, now, mon,
                   last>>
    /\ ev' = Do("probe liveness")
    /\ IF check_app_health_early(App) # None
       THEN /\ resp' = check_app_health_early(App)[1]
            /\ api' = [api EXCEPT !.pc = "done"]
       ELSE /\ resp' = resp
            /\ api' = [api EXCEPT !.pc = "probe"]

\* the on-demand check storing its result in the runtime record
ApiProbe_StoresResult ==
    /\ api.pc = "probe"
    /\ \E o \in ProbeOutcomes(App) :
          /\ resp' = ProbeResult(App, o)
          /\ api' = [api EXCEPT !.pc = "done", !.outcome = o]
          /\ apps' = [apps EXCEPT ![App].last_health = ProbeResult(App, o)]
    /\ ev' = Do("probe " \o ProbeKind(App))
    /\ UNCHANGED <<running, pidfile, procs, startScripts, stopScripts, boot, now, mon, last>>

\* check_app_health, lines 370-378: the probe of the declared kind meets outcome o.
ApiProbe ==
    /\ api.pc = "probe"
    /\ \E o \in ProbeOutcomes(App) :
          /\ resp' = ProbeResult(App, o)
          /\ api' = [api EXCEPT !.pc = "done", !.outcome = o]
    /\ ev' = Do("probe " \o ProbeKind(App))
    /\ UNCHANGED <<apps, running, pidfile, procs, startScripts, stopScripts, boot, now, mon,
                   last>>

\* _handle_connection, lines 582-586: the response is sent and the socket closed.
ApiClose ==
    /\ api.pc = "done"
    /\ api' = Idle
    /\ ev' = <<>>
    /\ resp' = NoResp
    /\ last' = IF api.op = "start" /\ resp.success THEN "start: success" ELSE ""
    /\ UNCHANGED <<apps, running, pidfile, procs, startScripts, stopScripts, boot, now, mon>>

\* ------------------------------------------------------- the routes
\* Request lines and paths are texts: sequences of one-character strings.
\* sub in s
Contains(s, sub) ==
    \E i \in 1..(Len(s) - Len(sub) + 1) : SubSeq(s, i, i + Len(sub) - 1) = sub

\* s.startswith(prefix)
startswith(s, prefix) == Len(s) >= Len(prefix) /\ SubSeq(s, 1, Len(prefix)) = prefix

\* s.split(sep), sep one character
RECURSIVE split(_, _)
split(s, sep) ==
    IF \A i \in 1..Len(s) : s[i] # sep THEN <<s>>
    ELSE LET i == CHOOSE i \in 1..Len(s) :
                     s[i] = sep /\ \A j \in 1..(i - 1) : s[j] # sep
         IN  <<SubSeq(s, 1, i - 1)>> \o split(SubSeq(s, i + 1, Len(s)), sep)

\* The name a text spells.
RECURSIVE Str(_)
Str(t) == IF t = <<>> THEN "" ELSE Head(t) \o Str(Tail(t))

T_apps == <<"/", "a", "p", "p", "s">>
T_apps_slash == <<"/", "a", "p", "p", "s", "/">>
T_health == <<"/", "h", "e", "a", "l", "t", "h">>
T_start == <<"/", "s", "t", "a", "r", "t">>
T_stop == <<"/", "s", "t", "o", "p">>
T_restart == <<"/", "r", "e", "s", "t", "a", "r", "t">>
T_GET == <<"G", "E", "T">>
T_POST == <<"P", "O", "S", "T">>

\* path.split('/')[2] and the handler function called with it, or the IndexError
\* of a path with fewer than three parts.
WithName(path, call) ==
    LET parts == split(path, "/")
    IN  IF Len(parts) < 3 THEN [route |-> "raise"]
        ELSE [route |-> call, app_name |-> Str(parts[3])]

\* do_GET, lines 462-481: the route of a GET request
do_GET(raw_path) ==
    LET path == split(raw_path, "?")[1]
    IN  IF path = T_apps THEN [route |-> "list"]
        ELSE IF startswith(path, T_apps_slash) /\ Contains(path, T_health)
        THEN WithName(path, "check_app_health")
        ELSE IF startswith(path, T_apps_slash) THEN WithName(path, "get_app_status")
        ELSE [route |-> "not_found"]

\* do_POST, lines 483-502: the route of a POST request
do_POST(path) ==
    IF Contains(path, T_start) THEN WithName(path, "start_app")
    ELSE IF Contains(path, T_stop) THEN WithName(path, "stop_app")
    ELSE IF Contains(path, T_restart) THEN WithName(path, "restart_app")
    ELSE [route |-> "not_found"]

\* _handle_connection, lines 551-579: the request line is split at its spaces and
\* handed to do_GET or do_POST; a line of fewer than two parts and any other
\* method reach no handler.
Dispatch(request_line) ==
    LET parts == split(request_line, " ")
    IN  IF request_line = <<>> \/ Len(parts) < 2 THEN [route |-> "nothing"]
        ELSE IF parts[1] = T_GET THEN do_GET(parts[2])
        ELSE IF parts[1] = T_POST THEN do_POST(parts[2])
        ELSE [route |-> "nothing"]

\* for name in apps (line 466): the names of the registry, each once
RECURSIVE OrderOf(_)
OrderOf(S) ==
    IF S = {} THEN <<>>
    ELSE LET n == CHOOSE n \in S : TRUE IN <<n>> \o OrderOf(S \ {n})

\* the list of the summaries without its first
list_apps_DropsFirst(names) ==
    IF names = <<>> THEN <<>>
    ELSE [i \in 1..(Len(names) - 1) |-> get_app_status(names[i + 1])]

\* line 466: [get_app_status(name) for name in apps]
list_apps(names) == [i \in 1..Len(names) |-> get_app_status(names[i])]

\* What start_app, stop_app and restart_app return for an application that is not
\* running and has no start script: lines 215-226, 248-250 and 283-285.
IdleResult(call) == call = "stop_app"

\* send_json (lines 454-460) with what the handler of the route computed; the
\* calls it made are listed with it. Nothing is written for a request that
\* reached no handler or whose handler raised.
Answer(r) ==
    CASE r.route = "list" ->
           [code |-> 200, body |-> [apps |-> list_apps(OrderOf(DOMAIN apps))],
            calls |-> <<>>]
      [] r.route = "get_app_status" ->
           [code |-> 200, body |-> get_app_status(r.app_name), calls |-> <<>>]
      [] r.route = "check_app_health" ->
           [code |-> 200, body |-> check_app_health_early(r.app_name)[1],
            calls |-> <<"check_app_health " \o r.app_name>>]
      [] r.route \in {"start_app", "stop_app", "restart_app"} ->
           [code |-> 200,
            body |-> [success |-> IdleResult(r.route),
                      status |-> get_app_status(r.app_name)],
            calls |-> <<r.route \o " " \o r.app_name>>]
      [] r.route = "not_found" ->
           [code |-> 404, body |-> [error |-> "Not found"], calls |-> <<>>]
      [] OTHER -> [calls |-> <<>>]

\* _handle_connection, lines 541-586, for a request that arrives while no
\* application is running and none has a script: the request line is dispatched,
\* the handler answers, and what it wrote is sent.
ApiRequest(request_line) ==
    /\ api.pc = "idle"
    /\ procs = <<>>
    /\ startScripts = {} /\ stopScripts = {}
    /\ LET a == Answer(Dispatch(request_line))
       IN  /\ resp' = IF "code" \in DOMAIN a THEN [code |-> a.code, body |-> a.body]
                      ELSE NoResp
           /\ ev' = a.calls
    /\ api' = [Idle EXCEPT !.pc = "done", !.request = request_line]
    /\ now' = IF Dispatch(request_line).route = "restart_app" THEN Sleep(1) ELSE now
    /\ UNCHANGED <<apps, running, pidfile, procs, startScripts, stopScripts, boot, mon, last>>

\* ------------------------------------------------- the monitor thread
MonStart == [pc |-> "while", i |-> 1, n |-> 0, health |-> EmptyDict]

\* health_monitor_loop, line 426: while running
MonWhile ==
    /\ mon.pc = "while"
    /\ mon' = IF running THEN [mon EXCEPT !.pc = "for", !.i = 1]
              ELSE [mon EXCEPT !.pc = "exit"]
    /\ UNCHANGED <<apps, running, pidfile, procs, startScripts, stopScripts, boot, now, api, ev, resp, last>>

\* lines 427-429: the next application of the registry, unless the flag is cleared
MonFor ==
    /\ mon.pc = "for"
    /\ mon' = IF mon.i > Len(AppOrder) \/ ~running
              THEN [mon EXCEPT !.pc = "wait", !.n = 0, !.i = 1]
              ELSE [mon EXCEPT !.pc = "check"]
    /\ UNCHANGED <<apps, running, pidfile, procs, startScripts, stopScripts, boot, now, api, ev, resp, last>>

\* line 431, in check_app_health lines 362-368; an exception of is_running ends
\* health_monitor_loop, which catches none
MonCheck ==
    /\ mon.pc = "check"
    /\ IF GetPidRaises(pidfile) THEN mon' = [mon EXCEPT !.pc = "raised"]
       ELSE LET early == check_app_health_early(AppOrder[mon.i])
            IN  mon' = IF early # None
                       THEN [mon EXCEPT !.pc = "store", !.health = early[1]]
                       ELSE [mon EXCEPT !.pc = "probe"]
    /\ UNCHANGED <<apps, running, pidfile, procs, startScripts, stopScripts, boot, now, api, ev, resp, last>>

\* line 431, in check_app_health lines 370-378: the probe returns, or
\* check_health_process raises what its is_running raises
MonProbe ==
    /\ mon.pc = "probe"
    /\ IF ProbeKind(AppOrder[mon.i]) = "process" /\ GetPidRaises(pidfile)
       THEN mon' = [mon EXCEPT !.pc = "raised"]
       ELSE \E o \in ProbeOutcomes(AppOrder[mon.i]) :
               mon' = [mon EXCEPT !.pc = "store",
                                  !.health = ProbeResult(AppOrder[mon.i], o)]
    /\ UNCHANGED <<apps, running, pidfile, procs, startScripts, stopScripts, boot, now, api, ev, resp, last>>

\* the result stored in the runtime record before it is stamped
MonStore_StoresUnstamped ==
    /\ mon.pc = "store"
    /\ apps' = [apps EXCEPT ![AppOrder[mon.i]].last_health = mon.health]
    /\ mon' = [mon EXCEPT !.pc = "track", !.health = EmptyDict]
    /\ UNCHANGED <<running, pidfile, procs, startScripts, stopScripts, boot, now, api, ev, resp, last>>

\* lines 432-433: the result is stamped, then stored in the runtime record
MonStore ==
    /\ mon.pc = "store"
    /\ apps' = [apps EXCEPT ![AppOrder[mon.i]].last_health =
                                ("last_check" :> now) @@ mon.health]
    /\ mon' = [mon EXCEPT !.pc = "track", !.health = EmptyDict]
    /\ UNCHANGED <<running, pidfile, procs, startScripts, stopScripts, boot, now, api, ev, resp, last>>

\* the tracking that stamps start_time whenever the application is running
MonTrack_AlwaysStamps ==
    /\ mon.pc = "track"
    /\ LET a == AppOrder[mon.i]
       IN  IF is_running(a)
           THEN /\ apps' = [apps EXCEPT ![a].start_time = Some(now)]
                /\ mon' = [mon EXCEPT !.pc = "for", !.i = mon.i + 1]
           ELSE /\ apps' = apps
                /\ mon' = [mon EXCEPT !.pc = "track_stopped"]
    /\ UNCHANGED <<running, pidfile, procs, startScripts, stopScripts, boot, now, api, ev, resp, last>>

\* lines 436-437: if is_running(app_name) and not start_time: start_time = now
MonTrack ==
    /\ mon.pc = "track"
    /\ LET a == AppOrder[mon.i]
       IN  IF GetPidRaises(pidfile)
           THEN /\ apps' = apps
                /\ mon' = [mon EXCEPT !.pc = "raised"]
           ELSE IF is_running(a) /\ ~Truthy(apps[a].start_time)
           THEN /\ apps' = [apps EXCEPT ![a].start_time = Some(now)]
                /\ mon' = [mon EXCEPT !.pc = "for", !.i = mon.i + 1]
           ELSE /\ apps' = apps
                /\ mon' = [mon EXCEPT !.pc = "track_stopped"]
    /\ UNCHANGED <<running, pidfile, procs, startScripts, stopScripts, boot, now, api, ev, resp, last>>

\* the monitor starting again an application it finds stopped
MonTrackStopped_Restarts ==
    /\ mon.pc = "track_stopped"
    /\ LET a == AppOrder[mon.i]
       IN  IF ~is_running(a) /\ a \in startScripts /\ Len(procs) < MaxPid
           THEN /\ apps' = [apps EXCEPT ![a].start_time = None]
                /\ procs' = Append(procs, TRUE)
                /\ pidfile' = File(PidText(Len(procs) + 1))
           ELSE /\ apps' = IF ~is_running(a) THEN [apps EXCEPT ![a].start_time = None]
                           ELSE apps
                /\ procs' = procs
                /\ pidfile' = pidfile
    /\ mon' = [mon EXCEPT !.pc = "for", !.i = mon.i + 1]
    /\ UNCHANGED <<running, startScripts, stopScripts, boot, now, api, ev, resp, last>>

\* lines 438-439: elif not is_running(app_name): start_time = None
MonTrackStopped ==
    /\ mon.pc = "track_stopped"
    /\ LET a == AppOrder[mon.i]
       IN  IF GetPidRaises(pidfile)
           THEN /\ apps' = apps
                /\ mon' = [mon EXCEPT !.pc = "raised"]
           ELSE /\ apps' = IF ~is_running(a) THEN [apps EXCEPT ![a].start_time = None]
                           ELSE apps
                /\ mon' = [mon EXCEPT !.pc = "for", !.i = mon.i + 1]
    /\ UNCHANGED <<running, pidfile, procs, startScripts, stopScripts, boot, now, api, ev, resp, last>>

\* the wait that sleeps out the interval whatever the flag
MonWait_IgnoresFlag ==
    /\ mon.pc = "wait"
    /\ IF mon.n = HEALTH_CHECK_INTERVAL
       THEN /\ mon' = [mon EXCEPT !.pc = "while", !.n = 0]
            /\ now' = now
       ELSE /\ mon' = [mon EXCEPT !.n = mon.n + 1]
            /\ now' = Sleep(1)
    /\ UNCHANGED <<apps, running, pidfile, procs, startScripts, stopScripts, boot, api, ev, resp, last>>

\* lines 442-445: one increment of the wait for the next cycle
MonWait ==
    /\ mon.pc = "wait"
    /\ IF mon.n = HEALTH_CHECK_INTERVAL \/ ~running
       THEN /\ mon' = [mon EXCEPT !.pc = "while", !.n = 0]
            /\ now' = now
       ELSE /\ mon' = [mon EXCEPT !.n = mon.n + 1]
            /\ now' = Sleep(1)
    /\ UNCHANGED <<apps, running, pidfile, procs, startScripts, stopScripts, boot, api, ev, resp, last>>

\* ------------------------------------------------ files and directories
\* File names are texts, compared by code point as Python compares str.
Alphabet ==
    <<"-", ".", "0", "1", "2", "3", "4", "5", "6", "7", "8", "9", "A", "D", "E",
      "M", "R", "a", "b", "d", "e", "h", "n", "s", "t", "w">>

Ord(c) == CHOOSE i \in 1..Len(Alphabet) : Alphabet[i] = c

RECURSIVE LexLess(_, _)
\* a < b on str
LexLess(a, b) ==
    IF b = <<>> THEN FALSE
    ELSE IF a = <<>> THEN TRUE
    ELSE IF Head(a) = Head(b) THEN LexLess(Tail(a), Tail(b))
    ELSE Ord(Head(a)) < Ord(Head(b))

RECURSIVE sorted(_)
\* sorted(names), names being distinct
sorted(S) ==
    IF S = {} THEN <<>>
    ELSE LET m == CHOOSE x \in S : \A y \in S \ {x} : LexLess(x, y)
         IN  <<m>> \o sorted(S \ {m})

Sh(stem) == stem \o <<".", "s", "h">>

\* The start script of App, startup.d/50-web.sh, and the names a script directory
\* can hold: 10-db.sh, 50-web.sh, 9-net.sh and README.
AppScript == Sh(<<"5", "0", "-", "w", "e", "b">>)

FileNames ==
    {AppScript, Sh(<<"1", "0", "-", "d", "b">>), Sh(<<"9", "-", "n", "e", "t">>),
     <<"R", "E", "A", "D", "M", "E">>}

\* glob.glob(dir + "/*.sh") in a directory holding the names of files
glob(files) ==
    {f \in files : /\ Len(f) >= 3
                   /\ SubSeq(f, Len(f) - 2, Len(f)) = <<".", "s", "h">>
                   /\ Head(f) # "."}

\* A manifest file: missing, not JSON, JSON that is no object, or a JSON object.
Missing == [kind |-> "missing"]
Unparsable == [kind |-> "unparsable"]
JsonList == [kind |-> "list"]
JsonDict(d) == [kind |-> "dict", d |-> d]

\* The applications a global manifest can name.
Names == {App, "db"}

\* load_global_manifest(manifest_path): the parsed file, or the empty default.
load_global_manifest(file) ==
    IF file.kind \in {"missing", "unparsable"} THEN JsonDict("apps" :> <<>>) ELSE file

\* load_app_manifest catching only the missing file
load_app_manifest_RaisesOnUnparsable(file) ==
    IF file.kind = "missing" THEN JsonDict(EmptyDict) ELSE file

\* load_app_manifest(app_name): the parsed file, or {}.
load_app_manifest(file) ==
    IF file.kind \in {"missing", "unparsable"} THEN JsonDict(EmptyDict) ELSE file

\* An entry of the global manifest's apps list: a name (legacy format) or an object.
StrEntry(n) == [fmt |-> "str", name |-> n]
DictEntry(d) == [fmt |-> "dict", d |-> d]

\* main, lines 631-638: name, port and type of an entry
app_name_of(e) == IF e.fmt = "dict" THEN Get(e.d, "name", "") ELSE e.name
global_port_of(e) == IF e.fmt = "dict" THEN Get(e.d, "port", 0) ELSE 0
global_type_of(e) == IF e.fmt = "dict" THEN Get(e.d, "type", "service") ELSE "service"

\* main, lines 644-648: global port and type fill in what the per-app manifest
\* has no true value for.
merge(app_manifest, global_port, global_type) ==
    LET m == IF global_port # 0 /\ Get(app_manifest, "port", 0) = 0
             THEN ("port" :> global_port) @@ app_manifest
             ELSE app_manifest
    IN  IF global_type # "" /\ Get(m, "type", "") = ""
        THEN ("type" :> global_type) @@ m
        ELSE m

\* The data volume and the default configs of the applications. dirs holds the
\* directories that exist and blocked those os.makedirs cannot create, both as
\* paths below /data/app-data (<<name, "data", ...>>) and /data/app-config
\* (<<name, "config">>); src[name] holds the files below /opt/<name> that exist,
\* unreadable those of them that cannot be read, and conf[name][dest] is the
\* content of a file of the application's config directory.
Absent == "absent"
Sources == {"default.conf", "other.conf"}
Dests == {"app.conf", "log.conf"}
Subdirs == {"cache"}
Contents == {Absent, "user edit"} \cup Sources

NoFs ==
    [dirs |-> {}, blocked |-> {}, unreadable |-> {},
     src |-> [n \in Names |-> {}],
     conf |-> [n \in Names |-> [d \in Dests |-> Absent]]]

\* os.path.exists of a source below /opt/<name> and of a destination below the
\* config directory; the empty relative path is the directory itself.
SourceExists(fs, n, source) == source = "" \/ source \in fs.src[n]
DestExists(fs, n, dest) ==
    dest = "" \/ (dest \in Dests /\ fs.conf[n][dest] # Absent)

\* A call that returned, and one that raised, with the file system it leaves.
Returned(fs) == [raised |-> FALSE, fs |-> fs]
Raised(fs) == [raised |-> TRUE, fs |-> fs]

\* os.makedirs(path, exist_ok=True)
makedirs(fs, path) ==
    IF path \in fs.dirs THEN Returned(fs)
    ELSE IF path \in fs.blocked THEN Raised(fs)
    ELSE Returned([fs EXCEPT !.dirs = fs.dirs \cup {path}])

\* init_app_directories, lines 115-116: the data subdirectories of the manifest
RECURSIVE make_data_dirs(_, _, _)
make_data_dirs(fs, n, data_dirs) ==
    IF data_dirs = <<>> THEN Returned(fs)
    ELSE LET r == makedirs(fs, <<n, "data", Head(data_dirs)>>)
         IN  IF r.raised THEN r ELSE make_data_dirs(r.fs, n, Tail(data_dirs))

\* shutil.copy2(source, dest): the copy of a file that can be read
copy2(fs, n, source, dest) ==
    IF source = "" \/ source \in fs.unreadable \/ dest \notin Dests THEN Raised(fs)
    ELSE Returned([fs EXCEPT !.conf[n][dest] = source])

\* the test that overlooks the destination
should_copy_IgnoresDest(fs, n, source, dest) == SourceExists(fs, n, source)

\* line 123: os.path.exists(source) and not os.path.exists(dest)
should_copy(fs, n, source, dest) ==
    SourceExists(fs, n, source) /\ ~DestExists(fs, n, dest)

\* init_app_directories, lines 119-125: a default config is copied when its
\* source exists and its destination does not.
RECURSIVE copy_default_configs(_, _, _)
copy_default_configs(fs, n, config_files) ==
    IF config_files = <<>> THEN Returned(fs)
    ELSE LET config == Head(config_files)
             source == Get(config, "source", "")
             dest == Get(config, "dest", "")
             r == IF should_copy(fs, n, source, dest)
                  THEN copy2(fs, n, source, dest) ELSE Returned(fs)
         IN  IF r.raised THEN r
             ELSE copy_default_configs(r.fs, n, Tail(config_files))

\* init_app_directories(app_name, manifest), lines 107-127: what it leaves of the
\* file system fs, and whether it raised.
init_app_directories(fs, app_name, manifest) ==
    LET r1 == makedirs(fs, <<app_name, "data">>)
    IN  IF r1.raised THEN r1
        ELSE LET r2 == makedirs(r1.fs, <<app_name, "config">>)
             IN  IF r2.raised THEN r2
                 ELSE LET r3 == make_data_dirs(r2.fs, app_name,
                                               Get(manifest, "data_dirs", <<>>))
                      IN  IF r3.raised THEN r3
                          ELSE copy_default_configs(r3.fs, app_name,
                                                    Get(manifest, "config_files", <<>>))

\* ---------------------------------------------------- the main thread
\* What the main thread, the server thread, the client and the signal handler
\* leave alone.
calls == <<pidfile, procs, startScripts, stopScripts, api, ev, last>>

\* main() about to load the global manifest. Besides its position: the index of
\* the entry the registration loop is at, the apps list of the global manifest,
\* and the scripts the batch in hand has still to run.
MainBoot == [pc |-> "load", i |-> 1, entries |-> <<>>, todo |-> <<>>]

MainAt(pc) == [MainBoot EXCEPT !.pc = pc]

\* main, lines 625-626: load_global_manifest, then manifest.get("apps", []), which
\* raises AttributeError on JSON that is no object.
MainLoad ==
    /\ main.pc = "load"
    /\ LET manifest == load_global_manifest(disk.global)
       IN  main' = IF manifest.kind # "dict" THEN MainAt("crashed")
                   ELSE [main EXCEPT !.pc = "register", !.i = 1,
                                     !.entries = Get(manifest.d, "apps", <<>>)]
    /\ UNCHANGED <<apps, running, now, resp, mon, srv, client, disk, ran, calls>>

\* main keeping the record of the first entry of a name
MainRegister_FirstWins ==
    /\ main.pc = "register"
    /\ UNCHANGED <<running, now, resp, mon, srv, client, ran, calls>>
    /\ IF main.i > Len(main.entries)
       THEN /\ main' = [main EXCEPT !.pc = "startup_batch"]
            /\ apps' = apps
            /\ disk' = disk
       ELSE LET app_entry == main.entries[main.i]
                app_name == app_name_of(app_entry)
            IN  IF app_name = ""
                THEN /\ main' = [main EXCEPT !.i = main.i + 1]
                     /\ apps' = apps
                     /\ disk' = disk
                ELSE LET app_manifest == load_app_manifest(disk.app[app_name])
                     IN  IF app_manifest.kind # "dict"
                         THEN /\ main' = MainAt("crashed")
                              /\ apps' = apps
                              /\ disk' = disk
                         ELSE LET m == merge(app_manifest.d,
                                             global_port_of(app_entry),
                                             global_type_of(app_entry))
                                  r == init_app_directories(disk.fs, app_name, m)
                              IN  /\ apps' = apps @@ (app_name :> NewRecord(m))
                                  /\ disk' = [disk EXCEPT !.fs = r.fs]
                                  /\ main' = IF r.raised THEN MainAt("crashed")
                                             ELSE [main EXCEPT !.i = main.i + 1]

\* main, lines 629-656: one turn of the registration loop; an entry without a
\* name is skipped, port and type are merged (which raises AttributeError on a
\* per-app manifest that is no object), the runtime record is stored under the
\* name, replacing an earlier one, and the application's directories are
\* provisioned; what init_app_directories raises ends main().
MainRegister ==
    /\ main.pc = "register"
    /\ UNCHANGED <<running, now, resp, mon, srv, client, ran, calls>>
    /\ IF main.i > Len(main.entries)
       THEN /\ main' = [main EXCEPT !.pc = "startup_batch"]
            /\ apps' = apps
            /\ disk' = disk
       ELSE LET app_entry == main.entries[main.i]
                app_name == app_name_of(app_entry)
            IN  IF app_name = ""
                THEN /\ main' = [main EXCEPT !.i = main.i + 1]
                     /\ apps' = apps
                     /\ disk' = disk
                ELSE LET app_manifest == load_app_manifest(disk.app[app_name])
                     IN  IF app_manifest.kind # "dict"
                         THEN /\ main' = MainAt("crashed")
                              /\ apps' = apps
                              /\ disk' = disk
                         ELSE LET m == merge(app_manifest.d,
                                             global_port_of(app_entry),
                                             global_type_of(app_entry))
                                  r == init_app_directories(disk.fs, app_name, m)
                              IN  /\ apps' = (app_name :> NewRecord(m)) @@ apps
                                  /\ disk' = [disk EXCEPT !.fs = r.fs]
                                  /\ main' = IF r.raised THEN MainAt("crashed")
                                             ELSE [main EXCEPT !.i = main.i + 1]

\* What running a script of a batch can come to.
BatchOutcomes == {"exit 0", "exit 1", "timeout", "error"}

\* run_startup_scripts, lines 155-161: without the directory nothing is run;
\* else the scripts are globbed and sorted.
MainStartupBatch ==
    /\ main.pc = "startup_batch"
    /\ ran' = <<>>
    /\ main' = IF disk.startup = None \/ glob(disk.startup[1]) = {}
               THEN [main EXCEPT !.pc = "start_threads", !.todo = <<>>]
               ELSE [main EXCEPT !.pc = "startup_run",
                                 !.todo = sorted(glob(disk.startup[1]))]
    /\ UNCHANGED <<apps, running, now, resp, mon, srv, client, disk, calls>>

\* run_startup_scripts giving up the batch at the first script that fails
StartupRun_StopsAtFailure(o) ==
    /\ main.pc = "startup_run"
    /\ ran' = Append(ran, [script |-> Head(main.todo), outcome |-> o])
    /\ main' = IF Len(main.todo) = 1 \/ o # "exit 0"
               THEN [main EXCEPT !.pc = "start_threads", !.todo = <<>>]
               ELSE [main EXCEPT !.todo = Tail(main.todo)]
    /\ UNCHANGED <<apps, running, now, resp, mon, srv, client, disk, calls>>

\* run_startup_scripts, lines 163-182: the next script runs and comes to outcome
\* o, which is logged; then the loop goes on, or ends after the last script.
StartupRun(o) ==
    /\ main.pc = "startup_run"
    /\ ran' = Append(ran, [script |-> Head(main.todo), outcome |-> o])
    /\ main' = IF Len(main.todo) = 1
               THEN [main EXCEPT !.pc = "start_threads", !.todo = <<>>]
               ELSE [main EXCEPT !.todo = Tail(main.todo)]
    /\ UNCHANGED <<apps, running, now, resp, mon, srv, client, disk, calls>>

\* The server object after __init__ (lines 508-512) with its thread about to
\* run start(): its position, self.running and the state of self.server_socket.
SrvNew == [pc |-> "start", running |-> FALSE, socket |-> "none", conn |-> 0]

\* The server in its accept loop.
SrvServing == [pc |-> "while", running |-> TRUE, socket |-> "listening", conn |-> 0]

\* main, lines 662-671: both threads are started.
MainStartThreads ==
    /\ main.pc = "start_threads"
    /\ main' = [main EXCEPT !.pc = "ready"]
    /\ mon' = MonStart
    /\ srv' = SrvNew
    /\ UNCHANGED <<apps, running, now, resp, client, disk, ran, calls>>

\* main, lines 674-675: while running: time.sleep(1)
MainLoop ==
    /\ main.pc = "ready"
    /\ IF running
       THEN /\ now' = Sleep(1)
            /\ main' = main
       ELSE /\ now' = now
            /\ main' = [main EXCEPT !.pc = "stop_server"]
    /\ UNCHANGED <<apps, running, resp, mon, srv, client, disk, ran, calls>>

\* main, line 681, in UnixSocketHTTPServer.stop, lines 588-593
MainStopServer ==
    /\ main.pc = "stop_server"
    /\ srv' = [srv EXCEPT !.running = FALSE,
                          !.socket = IF srv.socket = "none" THEN "none" ELSE "closed"]
    /\ main' = [main EXCEPT !.pc = "shutdown_batch"]
    /\ UNCHANGED <<apps, running, now, resp, mon, client, disk, ran, calls>>

\* run_shutdown_scripts, lines 187-192
MainShutdownBatch ==
    /\ main.pc = "shutdown_batch"
    /\ ran' = <<>>
    /\ main' = IF disk.shutdown = None \/ glob(disk.shutdown[1]) = {}
               THEN [main EXCEPT !.pc = "exit", !.todo = <<>>]
               ELSE [main EXCEPT !.pc = "shutdown_run",
                                 !.todo = sorted(glob(disk.shutdown[1]))]
    /\ UNCHANGED <<apps, running, now, resp, mon, srv, client, disk, calls>>

\* run_shutdown_scripts, lines 194-210, and after the last script main returns
\* (line 686), which ends the process and its daemon threads.
ShutdownRun(o) ==
    /\ main.pc = "shutdown_run"
    /\ ran' = Append(ran, [script |-> Head(main.todo), outcome |-> o])
    /\ main' = IF Len(main.todo) = 1
               THEN [main EXCEPT !.pc = "exit", !.todo = <<>>]
               ELSE [main EXCEPT !.todo = Tail(main.todo)]
    /\ UNCHANGED <<apps, running, now, resp, mon, srv, client, disk, calls>>

\* -------------------------------------------------- the server thread
\* The connections clients make to the control socket, each made once. A
\* connection is idle before the client connects, waiting in the listen queue,
\* then accepted: silent while the client has sent nothing, sent when its
\* request is there, closed when the client has closed having sent nothing; the
\* server leaves it answered, when it has sent a response and closed the socket,
\* or dropped, when it has closed the socket without a response.
Conns == 1..MaxConns
NoConns == [c \in Conns |-> "idle"]
Accepted == {"silent", "sent", "closed"}

\* UnixSocketHTTPServer.start, lines 516-523: the socket is created, then bound
\* and listening, unless bind (or chmod, listen) raises, which ends the thread.
SrvStart ==
    /\ srv.pc = "start"
    /\ \E bound \in BOOLEAN :
          srv' = IF bound
                 THEN [srv EXCEPT !.pc = "set_running", !.socket = "listening"]
                 ELSE [srv EXCEPT !.pc = "dead", !.socket = "unbound"]
    /\ UNCHANGED <<apps, running, now, resp, mon, main, client, disk, ran, calls>>

\* line 524: self.running = True
SrvSetRunning ==
    /\ srv.pc = "set_running"
    /\ srv' = [srv EXCEPT !.pc = "while", !.running = TRUE]
    /\ UNCHANGED <<apps, running, now, resp, mon, main, client, disk, ran, calls>>

\* line 528: while self.running
SrvWhile ==
    /\ srv.pc = "while"
    /\ srv' = [srv EXCEPT !.pc = IF srv.running THEN "accept" ELSE "exit"]
    /\ UNCHANGED <<apps, running, now, resp, mon, main, client, disk, ran, calls>>

\* lines 530-537: accept with a timeout of 1s. A waiting connection is accepted;
\* with none the timeout passes; on a closed socket the call raises, which is
\* caught (and logged while self.running), and the loop goes on.
SrvAccept ==
    /\ srv.pc = "accept"
    /\ IF srv.socket = "listening" /\ \E c \in Conns : client[c] = "waiting"
       THEN \E c \in Conns :
               /\ client[c] = "waiting"
               /\ srv' = [srv EXCEPT !.pc = "recv", !.conn = c]
               /\ client' = [client EXCEPT ![c] = "silent"]
       ELSE /\ srv' = [srv EXCEPT !.pc = "while"]
            /\ client' = client
    /\ UNCHANGED <<apps, running, now, resp, mon, main, disk, ran, calls>>

\* _handle_connection, lines 541-549 and 585-586: conn.recv, on a connection
\* without timeout, returns when the client has sent its request or has closed;
\* without data nothing is sent and the socket is closed.
SrvRecv ==
    /\ srv.pc = "recv"
    /\ client[srv.conn] \in {"sent", "closed"}
    /\ IF client[srv.conn] = "sent"
       THEN /\ srv' = [srv EXCEPT !.pc = "handle"]
            /\ client' = client
       ELSE /\ srv' = [srv EXCEPT !.pc = "while", !.conn = 0]
            /\ client' = [client EXCEPT ![srv.conn] = "dropped"]
    /\ UNCHANGED <<apps, running, now, resp, mon, main, disk, ran, calls>>

\* What the handling of a request comes to: a response is written and sent, no
\* handler is called and nothing is written, or the handling raises.
HandleOutcomes == {"response", "nothing", "raise"}

\* the connection left open when the handling raises
SrvHandle_LeaksOnRaise(o) ==
    /\ srv.pc = "handle"
    /\ resp' = IF o = "response" THEN get_app_status(App) ELSE resp
    /\ srv' = [srv EXCEPT !.pc = "while", !.conn = 0]
    /\ client' = [client EXCEPT ![srv.conn] =
                     CASE o = "response" -> "answered"
                       [] o = "nothing" -> "dropped"
                       [] OTHER -> "sent"]
    /\ UNCHANGED <<apps, running, now, mon, main, disk, ran, calls>>

\* _handle_connection, lines 551-586: the request (GET /apps/<App> when it is
\* answered) is handled; what was written is sent (line 582), an exception is
\* caught and logged (lines 583-584), and the socket is closed in any case
\* (lines 585-586).
SrvHandle(o) ==
    /\ srv.pc = "handle"
    /\ resp' = IF o = "response" THEN get_app_status(App) ELSE resp
    /\ srv' = [srv EXCEPT !.pc = "while", !.conn = 0]
    /\ client' = [client EXCEPT ![srv.conn] =
                     IF o = "response" THEN "answered" ELSE "dropped"]
    /\ UNCHANGED <<apps, running, now, mon, main, disk, ran, calls>>

\* A client of the control socket connects, ...
ClientConnect(c) ==
    /\ client[c] = "idle"
    /\ srv.socket = "listening"
    /\ client' = [client EXCEPT ![c] = "waiting"]
    /\ UNCHANGED <<apps, running, now, resp, mon, main, srv, disk, ran, calls>>

\* ... sends its request up to the blank line, ...
ClientSend(c) ==
    /\ client[c] = "silent"
    /\ client' = [client EXCEPT ![c] = "sent"]
    /\ UNCHANGED <<apps, running, now, resp, mon, main, srv, disk, ran, calls>>

\* ... or closes having sent nothing.
ClientClose(c) ==
    /\ client[c] = "silent"
    /\ client' = [client EXCEPT ![c] = "closed"]
    /\ UNCHANGED <<apps, running, now, resp, mon, main, srv, disk, ran, calls>>

\* ---------------------------------------------------- the environment
\* A live process ends: it exits by itself, on a signal, or crashes.
ProcExit(p) ==
    /\ Alive(p)
    /\ procs' = [procs EXCEPT ![p] = FALSE]
    /\ UNCHANGED <<apps, running, pidfile, startScripts, stopScripts, boot, now, api, ev, resp, mon, last>>

\* The PID record is rewritten from outside the supervisor, by the application
\* or its scripts.
PidRecordWritten(t) ==
    /\ pidfile # File(t)
    /\ pidfile' = File(t)
    /\ UNCHANGED <<apps, running, procs, startScripts, stopScripts, boot, now, api, ev, resp, mon, last>>

\* signal_handler: SIGTERM or SIGINT clears the flag
signal_handler ==
    /\ running
    /\ running' = FALSE
    /\ UNCHANGED <<apps, pidfile, procs, startScripts, stopScripts, boot, now, api, ev, resp, mon, last>>

\* ----------------------------------------------------- specifications
\* The supervisor is ready: the registry is loaded (App registered with one of the
\* manifests ms, or, if unregistered is allowed, not registered), the startup
\* batch has run (App is up with its PID record, or was not started and has no
\* PID record or one that does not parse), and both threads are about to start.
Ready(ms, unregistered, scripts) ==
    /\ apps \in {App :> NewRecord(m) : m \in ms}
                    \cup (IF unregistered THEN {EmptyDict} ELSE {})
    /\ running = TRUE
    /\ \/ procs = <<TRUE>> /\ pidfile = File(PidText(1))
       \/ procs = <<>> /\ pidfile \in {NoFile, File(GarbageText)}
    /\ startScripts \in SUBSET scripts
    /\ stopScripts \in SUBSET scripts
    /\ now = 1
    /\ api = Idle
    /\ ev = <<>>
    /\ resp = NoResp
    /\ mon = MonStart
    /\ last = ""
    /\ main = MainAt("ready")
    /\ srv = SrvServing
    /\ client = NoConns
    /\ disk = [global |-> IF App \in DOMAIN apps
                          THEN JsonDict("apps" :> <<StrEntry(App)>>) ELSE Missing,
               app |-> [n \in Names |-> IF n \in DOMAIN apps
                                        THEN JsonDict(apps[n].manifest) ELSE Missing],
               startup |-> Some({AppScript : n \in startScripts}),
               shutdown |-> Some({AppScript : n \in stopScripts}),
               fs |-> NoFs]
    /\ ran = <<>>

\* The steps of the API thread while it handles a request.
ApiStep ==
    \/ StartApp
    \/ \E o \in StartOutcomes : StartScript(o)
    \/ StopApp
    \/ \E o \in StopOutcomes : StopScript(o)
    \/ StopGetPid
    \/ StopSigterm
    \/ StopGrace
    \/ StopRecheck
    \/ StopSigkill
    \/ RestartSleep
    \/ ApiStatus
    \/ ApiCheckHealth
    \/ ApiProbe

MonStep ==
    \/ MonWhile
    \/ MonFor
    \/ MonCheck
    \/ MonProbe
    \/ MonStore
    \/ MonTrack
    \/ MonTrackStopped
    \/ MonWait

EnvStep == \E p \in 1..MaxPid : ProcExit(p)

\* The whole supervisor: the API thread, the monitor thread and the processes,
\* with the default health check. A response is looked at the moment it is sent:
\* the socket is closed before anything else moves.
Init == Ready({EmptyDict}, FALSE, {App})

Next ==
    \/ ApiClose
    \/ /\ api.pc # "done"
       /\ \/ \E op \in Ops : ApiAccept(op)
          \/ ApiStep
          \/ MonStep
          \/ EnvStep

Spec == Init /\ [][Next]_vars

\* The control API alone with the processes and the scripts: start_app, stop_app
\* and restart_app read the PID record and the process table only, which the
\* monitor thread never writes.
NextApi ==
    \/ ApiClose
    \/ /\ api.pc # "done"
       /\ \/ \E op \in Ops : ApiAccept(op)
          \/ ApiStep
          \/ EnvStep

SpecApi == Init /\ [][NextApi]_vars

\* The health checks of every declared kind, on demand and in the monitor, with
\* the processes ending underneath them.
InitHealth == Ready(Manifests, TRUE, {})

NextHealth ==
    \/ ApiClose
    \/ /\ api.pc # "done"
       /\ \/ ApiAccept("health")
          \/ ApiCheckHealth
          \/ ApiProbe
          \/ MonStep
          \/ EnvStep

SpecHealth == InitHealth /\ [][NextHealth]_vars

\* The status summary read on demand while the monitor polls, for every declared
\* kind of health check.
NextStatus ==
    \/ ApiClose
    \/ /\ api.pc # "done"
       /\ \/ ApiAccept("status")
          \/ ApiStatus
          \/ MonStep
          \/ EnvStep

SpecStatus == InitHealth /\ [][NextStatus]_vars

\* The global manifests main() can find: no file, no JSON, JSON that is no object,
\* an object without apps, or an object whose apps list holds up to MaxEntries
\* entries, each a name or an object with optional name, port and type.
Entries ==
    {StrEntry(n) : n \in {"", App}}
        \cup {DictEntry(n @@ p @@ t) :
                 n \in {EmptyDict} \cup {"name" :> x : x \in Names},
                 p \in {EmptyDict, "port" :> 9},
                 t \in {EmptyDict, "type" :> "other"}}

EntryLists == UNION {[1..k -> Entries] : k \in 0..MaxEntries}

GlobalFiles ==
    {Missing, Unparsable, JsonList, JsonDict(EmptyDict)}
        \cup {JsonDict("apps" :> l) : l \in EntryLists}

\* The per-app manifests: as above, with and without a port and a type, port 0
\* included.
AppFiles ==
    {Missing, Unparsable, JsonList, JsonDict(EmptyDict), JsonDict("port" :> 10),
     JsonDict("port" :> 0), JsonDict("type" :> "service"),
     JsonDict(("port" :> 10) @@ ("type" :> "service"))}

\* The threads and the control API before main() has started them.
Quiet ==
    /\ running = TRUE
    /\ procs = <<>>
    /\ pidfile = NoFile
    /\ startScripts = {}
    /\ stopScripts = {}
    /\ now = 1
    /\ api = Idle
    /\ ev = <<>>
    /\ resp = NoResp
    /\ mon = MonStart
    /\ last = ""
    /\ srv = SrvNew
    /\ client = NoConns
    /\ ran = <<>>

\* main() from the loading of the manifests to the ready state.
InitLoad ==
    /\ Quiet
    /\ apps = EmptyDict
    /\ main = MainBoot
    /\ disk \in [global : GlobalFiles,
                 app : [Names -> AppFiles] \cap
                           {f \in [Names -> AppFiles] : f["db"] \in {Missing, JsonList}},
                 startup : {None, Some({AppScript})},
                 shutdown : {None},
                 fs : {NoFs}]

NextLoad ==
    \/ MainLoad
    \/ MainRegister
    \/ MainStartupBatch
    \/ \E o \in BatchOutcomes : StartupRun(o)
    \/ MainStartThreads

SpecLoad == InitLoad /\ [][NextLoad]_vars

\* The two script batches, over every content of their directories.
InitBatch ==
    /\ Quiet
    /\ apps = EmptyDict
    /\ \E dir \in {None} \cup {Some(S) : S \in SUBSET FileNames} :
          \/ /\ main = MainAt("startup_batch")
             /\ disk = [global |-> Missing, app |-> [n \in Names |-> Missing],
                        startup |-> dir, shutdown |-> None, fs |-> NoFs]
          \/ /\ main = MainAt("shutdown_batch")
             /\ disk = [global |-> Missing, app |-> [n \in Names |-> Missing],
                        startup |-> None, shutdown |-> dir, fs |-> NoFs]

NextBatch ==
    \/ MainStartupBatch
    \/ \E o \in BatchOutcomes : StartupRun(o)
    \/ MainShutdownBatch
    \/ \E o \in BatchOutcomes : ShutdownRun(o)

SpecBatch == InitBatch /\ [][NextBatch]_vars

\* The shutdown: main() from the start of its threads to its return, the monitor
\* and the server thread beside it, a client of the control socket, and SIGTERM
\* or SIGINT at any moment. The threads are daemon threads: they take steps from
\* their creation until main returns.
InitShutdown ==
    /\ apps = App :> NewRecord(EmptyDict)
    /\ running = TRUE
    /\ \/ procs = <<TRUE>> /\ pidfile = File(PidText(1))
       \/ procs = <<>> /\ pidfile = NoFile
    /\ startScripts = {}
    /\ stopScripts = {}
    /\ now = 1
    /\ api = Idle
    /\ ev = <<>>
    /\ resp = NoResp
    /\ mon = MonStart
    /\ last = ""
    /\ main = MainAt("start_threads")
    /\ srv = SrvNew
    /\ client = NoConns
    /\ ran = <<>>
    /\ disk \in [global : {JsonDict("apps" :> <<StrEntry(App)>>)},
                 app : {[n \in Names |-> IF n = App THEN JsonDict(EmptyDict) ELSE Missing]},
                 startup : {None},
                 shutdown : {None, Some({AppScript})},
                 fs : {NoFs}]

MainStep ==
    \/ MainStartThreads
    \/ MainLoop
    \/ MainStopServer
    \/ MainShutdownBatch
    \/ \E o \in BatchOutcomes : ShutdownRun(o)

SrvStep ==
    \/ SrvStart
    \/ SrvSetRunning
    \/ SrvWhile
    \/ SrvAccept
    \/ SrvRecv
    \/ \E o \in HandleOutcomes : SrvHandle(o)

ClientStep(c) ==
    \/ ClientConnect(c)
    \/ ClientSend(c)
    \/ ClientClose(c)

\* the threads started at the beginning of main()
ThreadsAlive_FromBoot == main.pc \notin {"crashed", "exit"}

\* A thread of the process is alive from its start (lines 663-669) to the return
\* of main.
ThreadsAlive == main.pc \in {"ready", "stop_server", "shutdown_batch", "shutdown_run"}

MonThread == ThreadsAlive /\ MonStep
SrvThread == ThreadsAlive /\ SrvStep

NextShutdown ==
    \/ main.pc # "exit" /\ signal_handler
    \/ MainStep
    \/ MonThread
    \/ SrvThread
    \/ main.pc # "exit" /\ ClientStep(1)

\* Every thread that can take a step takes one in the end; a client and a signal
\* come or do not.
SpecShutdown ==
    /\ InitShutdown
    /\ [][NextShutdown]_vars
    /\ WF_vars(MainStep)
    /\ WF_vars(MonThread)
    /\ WF_vars(SrvThread)

\* The shutdown as the monitor sees it: the monitor reads the flag, the registry
\* and the processes, never the control socket.
NextMonitorStop ==
    \/ main.pc # "exit" /\ signal_handler
    \/ MainStep
    \/ MonThread

SpecMonitorStop ==
    /\ InitShutdown
    /\ [][NextMonitorStop]_vars
    /\ WF_vars(MainStep)
    /\ WF_vars(MonThread)

\* The shutdown as the server thread sees it: the accept loop reads its own
\* running attribute, its socket and the client's connection; the request it
\* handles reads the registry.
NextServerStop ==
    \/ main.pc # "exit" /\ signal_handler
    \/ MainStep
    \/ SrvThread
    \/ main.pc # "exit" /\ ClientStep(1)

SpecServerStop ==
    /\ InitShutdown
    /\ [][NextServerStop]_vars
    /\ WF_vars(MainStep)
    /\ WF_vars(SrvThread)

\* The provisioning of the applications' directories, over what the data volume
\* holds when main() starts: nothing, or the directories and the config files of
\* an earlier run, edited or not; directories that cannot be created; default
\* configs that are missing or cannot be read. web is listed once, twice, or
\* with db, and declares data subdirectories and default configs.
ConfigEntries ==
    {[source |-> "default.conf", dest |-> "app.conf"],
     [source |-> "other.conf", dest |-> "app.conf"],
     [source |-> "other.conf", dest |-> "log.conf"]}

ProvisionManifests ==
    {d @@ c : d \in {EmptyDict, "data_dirs" :> <<"cache">>},
              c \in {EmptyDict}
                     \cup {"config_files" :> <<e>> : e \in ConfigEntries}
                     \cup {"config_files" :> <<[source |-> "default.conf", dest |-> "app.conf"], e>> :
                              e \in ConfigEntries}}

ProvisionLists ==
    {<<StrEntry(App)>>, <<StrEntry(App), StrEntry(App)>>,
     <<StrEntry(App), StrEntry("db")>>, <<StrEntry("db"), StrEntry(App)>>}

Volumes ==
    {fs \in [dirs : {{}, {<<App, "data">>, <<App, "config">>}},
             blocked : {{}, {<<App, "config">>}, {<<App, "data", "cache">>},
                        {<<"db", "data">>}},
             unreadable : {{}, {"other.conf"}},
             src : {[n \in Names |-> IF n = App THEN S ELSE {}] : S \in SUBSET Sources},
             conf : {[n \in Names |-> IF n = App THEN c ELSE [d \in Dests |-> Absent]] :
                        c \in [Dests -> {Absent, "user edit"}]}] :
        /\ fs.blocked \cap fs.dirs = {}
        /\ (\E d \in Dests : fs.conf[App][d] # Absent) => <<App, "config">> \in fs.dirs}

InitProvision ==
    /\ Quiet
    /\ apps = EmptyDict
    /\ main = MainBoot
    /\ disk \in [global : {JsonDict("apps" :> l) : l \in ProvisionLists},
                 app : {[n \in Names |-> IF n = App THEN JsonDict(m)
                                         ELSE JsonDict(EmptyDict)] :
                           m \in ProvisionManifests},
                 startup : {None},
                 shutdown : {None},
                 fs : Volumes]

NextProvision ==
    \/ MainLoad
    \/ MainRegister

SpecProvision == InitProvision /\ [][NextProvision]_vars

\* The accept loop serving: the server thread in its loop, and MaxConns
\* connections that clients make, feed or abandon at any moment.
InitServe == Ready({EmptyDict}, FALSE, {})

NextServe ==
    \/ SrvWhile
    \/ SrvAccept
    \/ SrvRecv
    \/ \E o \in HandleOutcomes : SrvHandle(o)
    \/ \E c \in Conns : ClientStep(c)

SpecServe == InitServe /\ [][NextServe]_vars

\* The routes of the control API, over registries that are empty or hold
\* applications whose names contain the words of the routes, each with a health
\* result the monitor stored earlier, and over request lines that are well
\* formed or not.
RouteNames == {<<"w", "e", "b">>, <<"s", "t", "a", "r", "t", "e", "r">>, <<"s", "t", "o", "p", "p", "e", "r">>, <<"h", "e", "a", "l", "t", "h", "d">>, <<"n", "o", "p", "e">>}
Verbs == {<<"s", "t", "a", "r", "t">>, <<"s", "t", "o", "p">>, <<"r", "e", "s", "t", "a", "r", "t">>, <<"h", "e", "a", "l", "t", "h">>, <<"b", "o", "g", "u", "s">>}
Methods == {<<"G", "E", "T">>, <<"P", "O", "S", "T">>, <<"D", "E", "L", "E", "T", "E">>}

Cached == [status |-> "healthy", last_check |-> 1]

Registries ==
    {EmptyDict}
        \cup {[n \in S |-> [NewRecord(EmptyDict) EXCEPT !.last_health = Cached]] :
                 S \in {{"web"}, {"web", "starter", "stopper", "healthd"}}}

Paths ==
    {<<"/">>, T_apps, T_apps_slash, T_start, T_apps \o <<"?", "v">>}
        \cup {T_apps_slash \o n : n \in RouteNames}
        \cup {T_apps_slash \o n \o <<"/">> \o v : n \in RouteNames, v \in Verbs}

RequestLines ==
    {<<>>, T_GET}
        \cup {m \o <<" ">> \o path \o <<" ", "H", "T", "T", "P", "/", "1", ".", "1">> : m \in Methods, path \in Paths}

InitRoute ==
    /\ apps \in Registries
    /\ running = TRUE
    /\ procs = <<>>
    /\ pidfile = NoFile
    /\ startScripts = {}
    /\ stopScripts = {}
    /\ now = 1
    /\ api = Idle
    /\ ev = <<>>
    /\ resp = NoResp
    /\ mon = MonStart
    /\ last = ""
    /\ main = MainAt("ready")
    /\ srv = SrvServing
    /\ client = NoConns
    /\ disk = [global |-> Missing, app |-> [n \in Names |-> Missing],
               startup |-> None, shutdown |-> None, fs |-> NoFs]
    /\ ran = <<>>

NextRoute ==
    \/ \E request_line \in RequestLines : ApiRequest(request_line)
    \/ ApiClose

SpecRoute == InitRoute /\ [][NextRoute]_vars

\* The monitor at work until the shutdown is requested: every declared kind of
\* health check, the processes ending underneath it, and a PID record that holds
\* a PID, no number, or a number that is no pid_t, from the start or rewritten
\* while the monitor runs.
PidRecords == {File(PidText(1)), File(GarbageText), File(OverflowText)}

InitMonitor ==
    /\ apps \in {App :> NewRecord(m) : m \in Manifests}
    /\ running = TRUE
    /\ procs \in {<<>>, <<TRUE>>}
    /\ pidfile \in {NoFile} \cup PidRecords
    /\ startScripts = {}
    /\ stopScripts = {}
    /\ now = 1
    /\ api = Idle
    /\ ev = <<>>
    /\ resp = NoResp
    /\ mon = MonStart
    /\ last = ""
    /\ main = MainAt("ready")
    /\ srv = SrvServing
    /\ client = NoConns
    /\ disk = [global |-> JsonDict("apps" :> <<StrEntry(App)>>),
               app |-> [n \in Names |-> IF n = App THEN JsonDict(apps[n].manifest)
                                        ELSE Missing],
               startup |-> None, shutdown |-> None, fs |-> NoFs]
    /\ ran = <<>>

NextMonitor ==
    \/ MonStep
    \/ EnvStep
    \/ \E r \in PidRecords : PidRecordWritten(r.text)
    \/ signal_handler

\* The monitor thread takes a step whenever it can.
SpecMonitor ==
    /\ InitMonitor
    /\ [][NextMonitor]_vars
    /\ WF_vars(MonStep)

\* The liveness probe and the status summary over every kind of PID record: no
\* record, the PID of a process that is live, has ended or never was, a PID
\* between blanks, no number, the number 0; over runtime records with and
\* without a start time and a stored health result; with the record rewritten
\* and the processes ending between two requests.
ProbeRecords ==
    {File(PidText(p)) : p \in 1..MaxPid}
        \cup {File(<<" ">> \o PidText(1)), File(GarbageText), File(ZeroText)}

InitProbe ==
    /\ apps \in {App :> [manifest |-> EmptyDict, last_health |-> h, start_time |-> t] :
                    h \in {[status |-> "unknown"], [status |-> "healthy", last_check |-> 1]},
                    t \in {None, Some(1)}}
    /\ running = TRUE
    /\ procs \in {<<>>, <<TRUE>>, <<FALSE>>}
    /\ pidfile \in {NoFile} \cup ProbeRecords
    /\ startScripts = {}
    /\ stopScripts = {}
    /\ now = 1
    /\ api = Idle
    /\ ev = <<>>
    /\ resp = NoResp
    /\ mon = MonStart
    /\ last = ""
    /\ main = MainAt("ready")
    /\ srv = SrvServing
    /\ client = NoConns
    /\ disk = [global |-> JsonDict("apps" :> <<StrEntry(App)>>),
               app |-> [n \in Names |-> IF n = App THEN JsonDict(EmptyDict) ELSE Missing],
               startup |-> None, shutdown |-> None, fs |-> NoFs]
    /\ ran = <<>>

\* time.sleep returns on the API thread's side of the clock: a second passes.
Tick ==
    /\ now < MaxTime
    /\ now' = now + 1
    /\ UNCHANGED <<apps, running, pidfile, procs, startScripts, stopScripts, boot, api, ev, resp, mon, last>>

NextProbe ==
    \/ ApiClose
    \/ /\ api.pc # "done"
       /\ \/ ApiAccept("status")
          \/ ApiStatus
          \/ EnvStep
          \/ \E r \in ProbeRecords : PidRecordWritten(r.text)
          \/ Tick

SpecProbe == InitProbe /\ [][NextProbe]_vars

\* The monitor beside the control API: web, registered with the default health
\* check, has a start script and no stop script; start, stop, status and health
\* requests come at any moment, the monitor polls, and the processes end by
\* themselves.
ObserveOps == {"start", "stop", "status", "health"}

InitObserve ==
    /\ Ready({EmptyDict}, FALSE, {App})
    /\ startScripts = {App}
    /\ stopScripts = {}

NextObserve ==
    \/ ApiClose
    \/ /\ api.pc # "done"
       /\ \/ \E op \in ObserveOps : ApiAccept(op)
          \/ StartApp
          \/ \E o \in StartOutcomes : StartScript(o)
          \/ StopApp
          \/ StopGetPid
          \/ StopSigterm
          \/ StopGrace
          \/ StopRecheck
          \/ StopSigkill
          \/ ApiStatus
          \/ ApiCheckHealth
          \/ ApiProbe
          \/ MonStep
          \/ EnvStep

SpecObserve == InitObserve /\ [][NextObserve]_vars

\* Requests that name an application the registry does not hold: web is not
\* registered, but scripts named after it may lie in startup.d and shutdown.d
\* and a PID record of its name in the run directory.
InitUnregistered ==
    /\ Ready({EmptyDict}, TRUE, {App})
    /\ apps = EmptyDict

NextUnregistered ==
    \/ ApiClose
    \/ /\ api.pc # "done"
       /\ \/ \E op \in {"start", "stop", "restart"} : ApiAccept(op)
          \/ StartApp
          \/ \E o \in StartOutcomes : StartScript(o)
          \/ StopApp
          \/ \E o \in StopOutcomes : StopScript(o)
          \/ StopGetPid
          \/ StopSigterm
          \/ StopGrace
          \/ StopRecheck
          \/ StopSigkill
          \/ RestartSleep
          \/ EnvStep

SpecUnregistered == InitUnregistered /\ [][NextUnregistered]_vars

\* The startup in its order: main() from the loading of the manifests to its
\* main loop, the monitor and the server thread from their creation, and a
\* client of the control socket. web is listed once, twice, or after an entry
\* without a name; its directories exist, can be created, or cannot.
StartupLists ==
    {<<StrEntry(App)>>, <<StrEntry(App), StrEntry(App)>>, <<StrEntry(""), StrEntry(App)>>}

StartupManifests ==
    {EmptyDict,
     ("data_dirs" :> <<"cache">>)
         @@ ("config_files" :> <<[source |-> "default.conf", dest |-> "app.conf"]>>)}

StartupVolumes ==
    {NoFs,
     [NoFs EXCEPT !.src = [n \in Names |-> IF n = App THEN {"default.conf"} ELSE {}]],
     [NoFs EXCEPT !.blocked = {<<App, "config">>}]}

InitStartup ==
    /\ Quiet
    /\ apps = EmptyDict
    /\ main = MainBoot
    /\ disk \in [global : {JsonDict("apps" :> l) : l \in StartupLists},
                 app : {[n \in Names |-> IF n = App THEN JsonDict(m) ELSE Missing] :
                           m \in StartupManifests},
                 startup : {None, Some({AppScript})},
                 shutdown : {None},
                 fs : StartupVolumes]

NextStartup ==
    \/ MainLoad
    \/ MainRegister
    \/ MainStartupBatch
    \/ \E o \in BatchOutcomes : StartupRun(o)
    \/ MainStartThreads
    \/ MainLoop
    \/ MonThread
    \/ SrvThread
    \/ ClientStep(1)

SpecStartup == InitStartup /\ [][NextStartup]_vars

\* ----------------------------------------------------------- properties
\* Event e is among what the API thread did for the request in hand.
Has(e) == \E i \in 1..Len(ev) : ev[i] = e

\* The API thread leaves position pc in this step.
Leaves(pc) == api.pc = pc /\ api'.pc # pc

\* C1, as stated: two start calls in succession, the start script exiting 0 each
\* time it is run,
\* both answer success and exactly one process of the application is live after
\* the second.
C1_StartTwiceOneLiveProcess ==
    (/\ api.pc = "done"
     /\ api.op = "start"
     /\ last = "start: success"
     /\ App \in startScripts
     /\ ~Has("start_script: exit 1")
     /\ ~Has("start_script: timeout")
     /\ ~Has("start_script: error"))
        => resp.success /\ Cardinality(LiveProcs) = 1

\* C1, amended: a start call that follows a successful start and finds the PID
\* record naming a live process answers success without running a start script:
\* it brings up no process and leaves the PID record alone.
C1_SecondStartIsNoOp ==
    [][(Leaves("start_app") /\ api.op = "start" /\ last = "start: success"
            /\ is_running(App))
          => /\ api'.pc = "done"
             /\ resp'.success
             /\ ev' = <<"start_app: already running">>
             /\ procs' = procs
             /\ pidfile' = pidfile]_vars

\* the second start found the application running and did nothing
C1_Witness ==
    /\ api.pc = "done"
    /\ api.op = "start"
    /\ last = "start: success"
    /\ App \in startScripts
    /\ ev = <<"start_app: already running">>
    /\ resp.success
    /\ Cardinality(LiveProcs) = 1

\* C2: stop on an application that is not running (no PID record, a stale or an
\* unparsable one) answers success and has no effect: no stop script is run, no
\* signal is sent, the PID record, the processes and the runtime record are
\* unchanged.
C2_StopNotRunningNoEffect ==
    [][(Leaves("stop_app") /\ api.op = "stop" /\ ~is_running(App))
          => /\ api'.pc = "done"
             /\ resp'.success
             /\ ev' = <<"stop_app: not running">>
             /\ pidfile' = pidfile
             /\ procs' = procs
             /\ apps' = apps]_vars

C2_Witness ==
    /\ api.pc = "done"
    /\ api.op = "stop"
    /\ ev = <<"stop_app: not running">>
    /\ resp.success
    /\ pidfile = File(PidText(1))
    /\ ~Alive(1)

\* C3: for an application that is not running, start_app returns success exactly
\* when a start script exists and exits 0; with no script nothing is run and it
\* fails; a non-zero exit, a timeout or an execution error fails; whether the
\* process is live afterwards plays no part.
C3_StartSuccessIsExitCode ==
    (api.start_result # None /\ Has("start_app: not running"))
        => /\ api.start_result[1] <=> (App \in startScripts /\ Has("start_script: exit 0"))
           /\ App \notin startScripts
                 => /\ Has("error: No startup script found")
                    /\ \A o \in StartOutcomes : ~Has("start_script: " \o OutcomeName(o))
           /\ App \in startScripts
                 => \E o \in StartOutcomes : ev[Len(ev)] = "start_script: " \o OutcomeName(o)
           /\ api.op = "start" => resp.success = api.start_result[1]

\* start reported success although no process of the application is live
C3_Witness ==
    /\ api.pc = "done"
    /\ api.op = "start"
    /\ Has("start_script: exit 0")
    /\ resp.success
    /\ LiveProcs = {}

\* C4: stop_app returns failure only if the kill by PID raised, and when a stop
\* script exists its failure (non-zero exit, timeout, execution error) is logged
\* and stop_app still returns success.
C4_StopScriptFailureLoggedAndSuccess ==
    api.stop_result # None
        => /\ ~api.stop_result[1] => Has("error: Failed to stop")
           /\ (Has("stop_script: exit 1") \/ Has("stop_script: timeout")
                  \/ Has("stop_script: error"))
                 => Has("warning: Shutdown script failed") /\ api.stop_result[1]

\* The order of the kill by PID in a sequence of events: SIGTERM, the 2s sleep, the
\* liveness re-check, and SIGKILL only after a re-check that found the
\* application alive.
KillOrder(e) ==
    \A i \in 1..Len(e) :
        /\ e[i] = "SIGKILL"
              => i > 3 /\ e[i - 1] = "recheck: alive" /\ e[i - 2] = "sleep 2"
                       /\ e[i - 3] = "SIGTERM"
        /\ e[i] \in {"recheck: alive", "recheck: gone"}
              => i > 2 /\ e[i - 1] = "sleep 2" /\ e[i - 2] = "SIGTERM"
        /\ e[i] = "sleep 2" => i > 1 /\ e[i - 1] = "SIGTERM"
        /\ e[i] = "SIGTERM" => i > 1 /\ e[i - 1] = "get_pid"
        /\ e[i] = "recheck: gone" => \A j \in i..Len(e) : e[j] # "SIGKILL"

\* C5: in the kill by PID the order is SIGTERM to the PID read from the record,
\* the 2s grace period, the liveness re-check, and SIGKILL to the same PID only
\* if the re-check finds the application alive; SIGKILL never goes out without
\* the SIGTERM before it, nor when the process exited during the grace period.
C5_GracefulThenForced ==
    [][/\ KillOrder(ev')
       /\ Leaves("stop_get_pid") /\ api'.pc = "stop_sigterm" => api'.pid = get_pid(App)
       /\ Leaves("stop_grace") => now' = Min(now + GRACE_PERIOD, MaxTime)
       /\ Leaves("stop_recheck") => (api'.pc = "stop_sigkill" <=> is_running(App))
       /\ procs' # procs /\ Len(ev') > Len(ev) /\ ev'[Len(ev')] = "SIGKILL"
             => /\ api.pc = "stop_sigkill"
                /\ procs' = [procs EXCEPT ![api.pid[1]] = FALSE]]_vars

\* SIGKILL went out, after a re-check that found the application alive
C5_Witness ==
    /\ api.pc = "done"
    /\ api.op = "stop"
    /\ Len(ev) > 3
    /\ ev[Len(ev)] = "SIGKILL"
    /\ ev[Len(ev) - 1] = "recheck: alive"

SignalSent == Has("SIGTERM") \/ Has("SIGKILL")

StopScriptRan == \E o \in StopOutcomes : Has("stop_script: " \o OutcomeName(o))

\* C6, as stated: stop_app of a running application goes to the kill by PID
\* exactly when no stop script exists; when one exists it is run and the
\* supervisor sends no signal.
C6_SignalsOnlyWithoutStopScript ==
    (api.stop_result # None /\ Has("stop_app: running"))
        => /\ App \notin stopScripts => Has("get_pid") /\ ~StopScriptRan
           /\ App \in stopScripts => StopScriptRan /\ ~SignalSent

\* C6, amended: stop_app of a running application goes to the kill by PID exactly
\* when no stop script exists or the stop script timed out or could not be
\* executed; when a stop script exists it is run, and when it exits (with any
\* return code) the supervisor sends no signal.
C6_SignalsWithoutOrAfterFailedStopScript ==
    (api.stop_result # None /\ Has("stop_app: running"))
        => /\ Has("get_pid") <=> \/ App \notin stopScripts
                                 \/ Has("stop_script: timeout")
                                 \/ Has("stop_script: error")
           /\ App \in stopScripts <=> StopScriptRan
           /\ (Has("stop_script: exit 0") \/ Has("stop_script: exit 1")) => ~SignalSent
           /\ SignalSent => Has("get_pid")

\* the stop script timed out and the supervisor sent SIGTERM itself
C6_Witness ==
    /\ api.pc = "done"
    /\ api.op = "stop"
    /\ App \in stopScripts
    /\ Has("stop_script: timeout")
    /\ Has("SIGTERM")

StopEvents ==
    {"stop_app: running", "stop_app: not running", "get_pid", "SIGTERM", "sleep 2",
     "recheck: alive", "recheck: gone", "SIGKILL", "error: Failed to stop",
     "warning: Shutdown script failed"}
        \cup {"stop_script: " \o OutcomeName(o) : o \in StopOutcomes}

StartEvents ==
    {"start_app: already running", "start_app: not running",
     "error: No startup script found"}
        \cup {"start_script: " \o OutcomeName(o) : o \in StartOutcomes}

\* restart_app's order in a sequence of events: stop_app, then the 1s sleep, then
\* start_app.
RestartOrder(e) ==
    \E k \in 2..(Len(e) - 1) :
        /\ e[k] = "sleep 1"
        /\ e[1] \in {"stop_app: running", "stop_app: not running"}
        /\ \A i \in 1..(k - 1) : e[i] \in StopEvents
        /\ e[k + 1] \in {"start_app: already running", "start_app: not running"}
        /\ \A i \in (k + 1)..Len(e) : e[i] \in StartEvents

\* C7, as stated: restart is stop, the 1s wait, then start, it reports what start
\* returned, and whenever it reports failure or its stop failed the application
\* is left stopped.
C7_FailedRestartLeavesStopped ==
    (api.pc = "done" /\ api.op = "restart")
        => /\ RestartOrder(ev)
           /\ resp.success = api.start_result[1]
           /\ (~resp.success \/ api.stop_result = Some(FALSE)) => ~is_running(App)

\* C7, amended: restart is stop, the 1s wait, then start, whatever stop returned,
\* and it reports what start returned; when it reports failure because no start
\* script exists the application is left stopped. (When the start script ran and
\* failed, or when stop failed, the application may be running.)
C7_RestartIsStopSleepStart ==
    (api.pc = "done" /\ api.op = "restart")
        => /\ RestartOrder(ev)
           /\ api.stop_result # None /\ api.start_result # None
           /\ resp.success = api.start_result[1]
           /\ Has("error: No startup script found")
                 => ~resp.success /\ ~is_running(App)

\* the stop of a running application failed and restart still reported start's
\* success
C7_Witness ==
    /\ api.pc = "done"
    /\ api.op = "restart"
    /\ api.stop_result = Some(FALSE)
    /\ resp.success
    /\ is_running(App)

\* C8: after a restart in which the start script replaced the process, the status
\* summary of the response shows the new PID and an uptime counted from no
\* earlier than the restart: start_time is absent or not before the restart began.
C8_RestartResetsUptime ==
    (/\ api.pc = "done"
     /\ api.op = "restart"
     /\ App \in DOMAIN apps
     /\ api.old_pid # None
     /\ Has("start_script: exit 0")
     /\ resp.success
     /\ resp.status.pid # None
     /\ resp.status.pid # api.old_pid)
        => /\ resp.status.status = "running"
           /\ apps[App].start_time # None => apps[App].start_time[1] >= api.t0
           /\ resp.status.uptime_seconds <= now - api.t0

\* C9: for a registered application of any declared kind, a health check whose
\* liveness probe on the recorded PID fails returns stopped, on demand and in the
\* monitor alike, and attempts no TCP connect and no HTTP request.
C9_StoppedShortCircuits ==
    [][/\ (Leaves("check_health") /\ App \in DOMAIN apps /\ ~is_running(App))
             => /\ api'.pc = "done"
                /\ resp' = [status |-> "stopped"]
                /\ ev' = <<"probe liveness">>
       /\ (mon.pc = "check" /\ mon'.pc # "check" /\ ~is_running(AppOrder[mon.i]))
             => /\ mon'.pc = "store"
                /\ mon'.health = [status |-> "stopped"]
       /\ (Len(ev') > Len(ev) /\ ev'[Len(ev')] \in {"probe tcp", "probe http"})
             => api.pc = "probe" /\ Has("probe liveness")]_vars

\* an application with an http check was found stopped and no request was made
C9_Witness ==
    /\ api.pc = "done"
    /\ api.op = "health"
    /\ App \in DOMAIN apps
    /\ ProbeKind(App) = "http"
    /\ resp = [status |-> "stopped"]
    /\ ev = <<"probe liveness">>

\* The target of a health check is reachable in outcome o: the response carries
\* the configured expected status, the connection succeeded, or the recorded PID
\* is live.
Reachable(app_name, o) ==
    CASE o.kind = "response" ->
             o.code = Get(health_config(app_name), "expected_status",
                          DEFAULT_EXPECTED_STATUS)
      [] o.kind = "errno" -> o.errno = 0
      [] o.kind = "process" -> o.alive
      [] OTHER -> FALSE

\* C10: the check kind is the declared health type, process by default; for a
\* running application a reachable target gives healthy and an unreachable one
\* gives unhealthy with a non-empty error; the status is always one of healthy,
\* unhealthy, stopped, unknown.
C10_ReachableIffHealthy ==
    (api.pc = "done" /\ api.op = "health")
        => /\ resp.status \in {"healthy", "unhealthy", "stopped", "unknown"}
           /\ DOMAIN api.outcome # {}
                 => /\ Has("probe " \o ProbeKind(App))
                    /\ api.outcome \in
                          CASE health_type(App) = "http" -> HttpOutcomes
                            [] health_type(App) = "tcp" -> TcpOutcomes
                            [] OTHER -> [kind : {"process"}, alive : BOOLEAN]
                    /\ IF Reachable(App, api.outcome)
                       THEN resp.status = "healthy"
                       ELSE /\ resp.status = "unhealthy"
                            /\ "error" \in DOMAIN resp
                            /\ resp.error # ""

\* C11: for a running application with an http check the result is healthy if
\* and only if the response status equals the configured expected status
\* (default 200), whatever that status is; a transport error gives unhealthy
\* with its message.
C11_HealthyIffExpectedStatus ==
    (api.pc = "done" /\ api.op = "health" /\ DOMAIN api.outcome # {}
        /\ health_type(App) = "http")
        => /\ api.outcome.kind = "response"
                 => (resp.status = "healthy"
                        <=> api.outcome.code = Get(health_config(App), "expected_status",
                                                   DEFAULT_EXPECTED_STATUS))
           /\ api.outcome.kind \in {"refused", "timeout"}
                 => /\ resp.status = "unhealthy"
                    /\ "error" \in DOMAIN resp
           /\ resp.status \in {"healthy", "unhealthy"}

\* C12: start_time is absent at registration, only the monitor's liveness
\* tracking changes it, and when that tracking of an application completes,
\* start_time is present if and only if the liveness check it made last succeeded.
C12_StartTimeIffObservedRunning ==
    [][/\ \A a \in DOMAIN apps :
             apps'[a].start_time # apps[a].start_time
                 => mon.pc \in {"track", "track_stopped"} /\ a = AppOrder[mon.i]
       /\ (mon.pc = "track" /\ mon'.pc = "for")
             => /\ is_running(AppOrder[mon.i])
                /\ apps'[AppOrder[mon.i]].start_time # None
       /\ (mon.pc = "track_stopped" /\ mon'.pc = "for")
             => (apps'[AppOrder[mon.i]].start_time # None
                    <=> is_running(AppOrder[mon.i]))]_vars

\* A complete health result: the initial one, or the result of a completed check
\* with its last_check timestamp.
Complete(h) ==
    \/ h = [status |-> "unknown"]
    \/ /\ {"status", "last_check"} \subseteq DOMAIN h
       /\ h.status \in {"healthy", "unhealthy", "stopped"}
       /\ h.status = "unhealthy" => "error" \in DOMAIN h

\* C13: the runtime record, and the status summary read while the monitor polls,
\* always hold a complete health result; a poll replaces the previous result in
\* one step, by the result of its check stamped with last_check.
C13_HealthResultAlwaysComplete ==
    [][/\ \A a \in DOMAIN apps' : Complete(apps'[a].last_health)
       /\ (api'.pc = "done" /\ api'.op = "status" /\ App \in DOMAIN apps)
             => Complete(resp'.health)
       /\ \A a \in DOMAIN apps :
             apps'[a].last_health # apps[a].last_health
                 => /\ mon.pc = "store" /\ a = AppOrder[mon.i]
                    /\ apps'[a].last_health = ("last_check" :> now) @@ mon.health]_vars

\* a summary was read with the result of a completed poll while the monitor holds
\* the unstored result of the next one
C13_Witness ==
    /\ api.pc = "done"
    /\ api.op = "status"
    /\ App \in DOMAIN apps
    /\ "last_check" \in DOMAIN resp.health
    /\ mon.pc = "store"
    /\ mon.health # EmptyDict
    /\ mon.health.status # resp.health.status

\* The scripts of the directory of the batch in hand.
BatchScripts ==
    LET dir == IF main.pc \in {"startup_batch", "startup_run", "start_threads"}
               THEN disk.startup ELSE disk.shutdown
    IN  IF dir = None THEN {} ELSE glob(dir[1])

\* C17: a startup or shutdown batch executes the scripts of its directory one after
\* the other in lexicographic order of their names, none twice and none skipped,
\* whatever the scripts before it came to, and when the batch ends every script
\* has been executed.
C17_BatchRunsEveryScriptInOrder ==
    /\ \A i \in 1..Len(ran) : ran[i].script \in BatchScripts
    /\ \A i, j \in 1..Len(ran) : i < j => LexLess(ran[i].script, ran[j].script)
    /\ \A i \in 1..Len(ran) : \A f \in BatchScripts :
          LexLess(f, ran[i].script) => \E j \in 1..(i - 1) : ran[j].script = f
    /\ main.pc \in {"start_threads", "exit"}
          => {ran[i].script : i \in 1..Len(ran)} = BatchScripts

\* a batch of three scripts ran to its end in the order 10-db.sh, 50-web.sh,
\* 9-net.sh although the first timed out and the second failed
C17_Witness ==
    /\ main.pc = "start_threads"
    /\ Len(ran) = 3
    /\ ran[1] = [script |-> Sh(<<"1", "0", "-", "d", "b">>), outcome |-> "timeout"]
    /\ ran[2] = [script |-> AppScript, outcome |-> "exit 1"]
    /\ ran[3].script = Sh(<<"9", "-", "n", "e", "t">>)

\* The registration loop has ended.
Registered == main.pc \in {"startup_batch", "startup_run", "start_threads", "ready"}

\* The last entry of the global manifest that names n.
LastEntry(n) ==
    main.entries[CHOOSE i \in 1..Len(main.entries) :
                    /\ app_name_of(main.entries[i]) = n
                    /\ \A j \in (i + 1)..Len(main.entries) :
                          app_name_of(main.entries[j]) # n]

\* What the per-app manifest of n declares, and what its global entry declares.
Declared(n) == IF disk.app[n].kind = "dict" THEN disk.app[n].d ELSE EmptyDict
GlobalDeclared(n) == IF LastEntry(n).fmt = "dict" THEN LastEntry(n).d ELSE EmptyDict

\* C18: after loading, the port and the type of every registered application are
\* the per-app manifest's whenever it declares them, and the global manifest's
\* when the per-app manifest omits them and the global manifest declares them.
C18_PerAppValuesWin ==
    Registered
        => \A n \in DOMAIN apps : \A k \in {"port", "type"} :
              /\ k \in DOMAIN Declared(n)
                    => /\ k \in DOMAIN apps[n].manifest
                       /\ apps[n].manifest[k] = Declared(n)[k]
              /\ (k \notin DOMAIN Declared(n) /\ k \in DOMAIN GlobalDeclared(n))
                    => /\ k \in DOMAIN apps[n].manifest
                       /\ apps[n].manifest[k] = GlobalDeclared(n)[k]

\* A manifest file that cannot be read as JSON, or is not there.
Unreadable(file) == file.kind \in {"missing", "unparsable"}

\* The names the global manifest lists, the empty one left out.
ListedNames == {app_name_of(main.entries[i]) : i \in 1..Len(main.entries)} \ {""}

\* C19: a missing or unparsable manifest never aborts startup. main() stops
\* before the ready state only on a manifest that parses to something that is
\* no object; short of the ready state it always has a next step; an unreadable
\* global manifest leaves the registry empty, and an application whose own
\* manifest is unreadable is registered with the global entry's values and the
\* defaults.
C19_UnreadableManifestNotFatal ==
    /\ main.pc = "crashed"
          => \/ disk.global.kind = "list"
             \/ \E n \in Names : disk.app[n].kind = "list"
    /\ main.pc \notin {"ready", "crashed"} => ENABLED NextLoad
    /\ (Registered /\ Unreadable(disk.global)) => apps = EmptyDict
    /\ Registered
          => \A n \in ListedNames :
                Unreadable(disk.app[n])
                   => /\ n \in DOMAIN apps
                      /\ apps[n] = NewRecord(merge(EmptyDict,
                                                   global_port_of(LastEntry(n)),
                                                   global_type_of(LastEntry(n))))

\* The supervisor is ready, with an application whose manifest did not parse.
C19_Witness ==
    /\ main.pc = "ready"
    /\ disk.app[App] = Unparsable
    /\ App \in DOMAIN apps
    /\ apps[App].manifest = [type |-> "service"]

\* C20: after loading, the registry holds one record for every non-empty name
\* the global manifest lists and no other; the record carries the descriptor
\* merged from the last entry of that name, health "unknown" and no start_time.
C20_RegistryOnePerName ==
    Registered
        => /\ DOMAIN apps = ListedNames
           /\ \A n \in DOMAIN apps :
                 /\ apps[n].manifest =
                        merge(load_app_manifest(disk.app[n]).d,
                              global_port_of(LastEntry(n)),
                              global_type_of(LastEntry(n)))
                 /\ apps[n].last_health = [status |-> "unknown"]
                 /\ apps[n].start_time = None
                 /\ DOMAIN apps[n] = {"manifest", "last_health", "start_time"}

\* web is listed twice, first without a port and then with one; the registry
\* holds the one record of the second entry.
C20_Witness ==
    /\ Registered
    /\ Len(main.entries) = 2
    /\ app_name_of(main.entries[1]) = App
    /\ app_name_of(main.entries[2]) = App
    /\ global_port_of(main.entries[1]) = 0
    /\ global_port_of(main.entries[2]) = 9
    /\ DOMAIN apps = {App}
    /\ Get(apps[App].manifest, "port", 0) = 9

\* How far the monitor is from the end of health_monitor_loop once the flag is
\* cleared.
MonRank(pc) ==
    CASE pc = "check" -> 8
      [] pc = "probe" -> 7
      [] pc = "store" -> 6
      [] pc = "track" -> 5
      [] pc = "track_stopped" -> 4
      [] pc = "for" -> 3
      [] pc = "wait" -> 2
      [] pc = "while" -> 1
      [] pc = "exit" -> 0

\* C14: once the flag is cleared every step of the monitor brings it nearer to
\* the end of its loop: it finishes the check in flight, starts no other check,
\* sleeps no further second, and it has left the loop in the end (unless the
\* process ends first).
C14_MonitorStopsPromptly ==
    /\ [][(~running /\ mon' # mon)
             => /\ MonRank(mon'.pc) < MonRank(mon.pc)
                /\ mon'.pc # "check"
                /\ mon.pc \in {"for", "wait", "while"} => now' = now]_vars
    /\ [](~running => <>(mon.pc = "exit" \/ main.pc = "exit"))

\* The monitor has left its loop on a cleared flag, a check behind it.
C14_Witness ==
    /\ ~running
    /\ mon.pc = "exit"
    /\ main.pc # "exit"
    /\ "last_check" \in DOMAIN apps[App].last_health

\* C15: the flag is cleared before main leaves its loop, and the shutdown scripts
\* run only when the monitor loop and the accept loop have both exited.
C15_ShutdownBatchAfterLoopsExit ==
    /\ main.pc \in {"stop_server", "shutdown_batch", "shutdown_run", "exit"}
          => ~running
    /\ main.pc = "shutdown_run" => (mon.pc = "exit" /\ srv.pc = "exit")

\* C16: the server thread never stays in a connection for ever, whatever the
\* client does, and once the flag is cleared its loop is left in the end (or the
\* process has ended).
C16_AcceptLoopNeverBlocks ==
    /\ [](srv.pc = "recv" => <>(srv.pc # "recv" \/ main.pc = "exit"))
    /\ [](~running => <>(srv.pc = "exit" \/ main.pc = "exit"))

\* The registration loop is about to provision application n.
Provisioning(n) ==
    /\ main.pc = "register"
    /\ main.i <= Len(main.entries)
    /\ app_name_of(main.entries[main.i]) = n

\* C21: provisioning never changes a config file that exists, what it puts in
\* place of an absent one is a default config of the application, provisioning
\* an application a second time changes nothing on the volume, and
\* init_app_directories applied to its own result returns it unchanged.
C21_ProvisioningIdempotent ==
    /\ [][/\ \A n \in Names : \A d \in Dests :
               /\ disk.fs.conf[n][d] # Absent
                     => disk'.fs.conf[n][d] = disk.fs.conf[n][d]
               /\ disk'.fs.conf[n][d] # disk.fs.conf[n][d]
                     => disk'.fs.conf[n][d] \in disk.fs.src[n]
          /\ \A n \in DOMAIN apps :
                Provisioning(n) => (disk' = disk /\ main'.pc # "crashed")]_vars
    /\ [](\A n \in Names :
             disk.app[n].kind = "dict"
                => LET once == init_app_directories(disk.fs, n, disk.app[n].d)
                   IN  ~once.raised
                          => init_app_directories(once.fs, n, disk.app[n].d) = once)

\* web has been provisioned twice: the default of app.conf was copied, the
\* edited log.conf was kept.
C21_Witness ==
    /\ main.pc = "startup_batch"
    /\ main.entries = <<StrEntry(App), StrEntry(App)>>
    /\ Get(disk.app[App].d, "config_files", <<>>)
          = <<[source |-> "default.conf", dest |-> "app.conf"],
              [source |-> "other.conf", dest |-> "log.conf"]>>
    /\ "other.conf" \in disk.fs.src[App]
    /\ disk.fs.conf[App]["app.conf"] = "default.conf"
    /\ disk.fs.conf[App]["log.conf"] = "user edit"

\* C22: no failure of init_app_directories ends main(): every application of
\* the manifest is registered and the registration loop is gone through.
C22_ProvisioningFailureNotFatal ==
    /\ main.pc # "crashed"
    /\ Registered => DOMAIN apps = ListedNames

\* C23: when the binding of the control socket has failed the supervisor is not
\* in the ready state, sleeping in its main loop.
C23_BindFailureAbortsStartup ==
    srv.pc = "dead" => main.pc # "ready"

\* The connections the server has accepted and not yet closed.
InHand == {c \in Conns : client[c] \in Accepted}

\* C29: the server has at most one accepted connection in hand, the one it is
\* reading or handling, and none between two turns of its loop; a connection is
\* answered only by the handling of its own request, once, and a connection the
\* server has closed stays closed.
C29_OneConnectionAtATime ==
    /\ [](/\ Cardinality(InHand) <= 1
          /\ srv.pc \in {"recv", "handle"} => InHand = {srv.conn}
          /\ srv.pc \notin {"recv", "handle"} => (InHand = {} /\ srv.conn = 0))
    /\ [][\A c \in Conns :
             /\ client[c] \in {"answered", "dropped"} => client'[c] = client[c]
             /\ (client'[c] = "answered" /\ client[c] # "answered")
                   => (srv.pc = "handle" /\ srv.conn = c /\ client[c] = "sent")]_vars

\* One connection was answered, the handling of the other raised: both are
\* closed and the server is back in its loop.
C29_Witness ==
    /\ client[1] = "answered"
    /\ client[2] = "dropped"
    /\ srv.pc = "while"
    /\ "name" \in DOMAIN resp

\* The request in hand as the control API documents it: its method, the segments
\* of its path (the query left out) and the application it names.
ReqParts == split(api.request, " ")
ReqMethod == IF api.request # <<>> THEN ReqParts[1] ELSE <<>>
ReqSegments ==
    IF Len(ReqParts) >= 2 THEN split(split(ReqParts[2], "?")[1], "/") ELSE <<>>
ReqName == IF Len(ReqSegments) >= 3 THEN Str(ReqSegments[3]) ELSE ""
UnderApps == Len(ReqSegments) >= 2 /\ ReqSegments[1] = <<>> /\ ReqSegments[2] = <<"a", "p", "p", "s">>

\* GET /apps
IsList == ReqMethod = T_GET /\ UnderApps /\ Len(ReqSegments) = 2
\* GET /apps/<name>
IsStatus == ReqMethod = T_GET /\ UnderApps /\ Len(ReqSegments) = 3 /\ ReqName # ""
\* GET /apps/<name>/health
IsHealth ==
    /\ ReqMethod = T_GET /\ UnderApps /\ Len(ReqSegments) = 4 /\ ReqName # ""
    /\ ReqSegments[4] = <<"h", "e", "a", "l", "t", "h">>
\* POST /apps/<name>/<verb>
IsAction(verb) ==
    /\ ReqMethod = T_POST /\ UnderApps /\ Len(ReqSegments) = 4 /\ ReqName # ""
    /\ ReqSegments[4] = verb

IsRoute ==
    \/ IsList \/ IsStatus \/ IsHealth
    \/ IsAction(<<"s", "t", "a", "r", "t">>) \/ IsAction(<<"s", "t", "o", "p">>) \/ IsAction(<<"r", "e", "s", "t", "a", "r", "t">>)

\* A request has been received and handled.
Answered == api.pc = "done" /\ api.request # <<>>
ErrorPayload == resp # NoResp /\ "error" \in DOMAIN resp.body

\* C24: a request that is none of the routes (a request line of fewer than two
\* parts, another method, a path without an application name, an unknown path)
\* is answered with an error payload.
C24_MalformedRequestsGetErrorPayload ==
    (Answered /\ ~IsRoute) => ErrorPayload

\* C25: POST /apps/<name>/start, /stop and /restart call start_app, stop_app and
\* restart_app on <name>, that and nothing else, and answer with its result and
\* the status summary of <name>.
C25_PostRoutesInvokeTheirAction ==
    \A v \in {"start", "stop", "restart"} :
        (Answered /\ IsAction(CASE v = "start" -> <<"s", "t", "a", "r", "t">>
                                [] v = "stop" -> <<"s", "t", "o", "p">>
                                [] OTHER -> <<"r", "e", "s", "t", "a", "r", "t">>))
           => /\ ev = <<v \o "_app " \o ReqName>>
              /\ resp = [code |-> 200,
                         body |-> [success |-> IdleResult(v \o "_app"),
                                   status |-> get_app_status(ReqName)]]

\* C26: GET /apps/<name> answers with the status summary of <name>, an error
\* payload when <name> is not registered, and GET /apps/<name>/health with the
\* health result of <name>.
C26_GetRoutesByName ==
    /\ (Answered /\ IsStatus)
          => /\ resp # NoResp
             /\ ReqName \in DOMAIN apps => resp.body = get_app_status(ReqName)
             /\ ReqName \notin DOMAIN apps => ErrorPayload
    /\ (Answered /\ IsHealth /\ ReqName \in DOMAIN apps)
          => /\ resp # NoResp
             /\ resp.body = check_app_health_early(ReqName)[1]

\* C27: GET /apps answers with the list that holds the status summary of every
\* registered application once and nothing else.
C27_ListHoldsEveryAppOnce ==
    (Answered /\ IsList)
        => /\ resp # NoResp
           /\ resp.code = 200
           /\ DOMAIN resp.body = {"apps"}
           /\ Len(resp.body.apps) = Cardinality(DOMAIN apps)
           /\ \A n \in DOMAIN apps :
                 \E i \in 1..Len(resp.body.apps) : resp.body.apps[i] = get_app_status(n)
           /\ apps = EmptyDict => resp.body = [apps |-> <<>>]

\* GET /apps was answered with the four summaries of a registry of four.
C27_Witness ==
    /\ Answered
    /\ IsList
    /\ Cardinality(DOMAIN apps) = 4
    /\ Len(resp.body.apps) = 4

\* C28: GET /apps/<name>/health runs check_app_health and answers with its
\* result; GET /apps/<name> and GET /apps run no health check and carry the
\* health result the monitor stored.
C28_HealthFreshStatusCached ==
    /\ (Answered /\ IsHealth /\ ReqName \in DOMAIN apps)
          => /\ ev = <<"check_app_health " \o ReqName>>
             /\ resp # NoResp
             /\ resp.body = check_app_health_early(ReqName)[1]
    /\ (Answered /\ IsStatus /\ ReqName \in DOMAIN apps)
          => /\ ev = <<>>
             /\ resp # NoResp
             /\ Get(resp.body, "health", EmptyDict) = apps[ReqName].last_health
    /\ (Answered /\ IsList)
          => /\ ev = <<>>
             /\ resp # NoResp
             /\ \A i \in 1..Len(resp.body.apps) : resp.body.apps[i].health = Cached

\* C30: the monitor loop runs until the shutdown is requested, whatever its
\* probes come to, the liveness probe included: it is never ended while the flag
\* is set, and the result it has stored for an application carries its stamp.
C30_MonitorRunsUntilShutdown ==
    /\ running => mon.pc \notin {"raised", "exit"}
    /\ mon.pc \in {"track", "track_stopped"}
          => "last_check" \in DOMAIN apps[AppOrder[mon.i]].last_health

\* The monitor is between its writes to App's runtime record: the health result
\* of this poll is stored (line 433), start_time is not yet settled (lines
\* 436-439).
BetweenWrites == mon.pc \in {"track", "track_stopped"}

\* C31: the control API never reads a runtime record while the monitor is
\* between its writes to it within one poll: no status summary is built from
\* the health result of one poll and the start_time of another.
C31_RecordAccessMutuallyExclusive ==
    (api.pc = "done" /\ api.op = "status") => ~BetweenWrites

\* The number the PID record holds, if it is there and parses, and whether a
\* live process has it for its PID.
Recorded == IF pidfile.exists THEN int(pidfile.text) ELSE None
LiveRecorded == Recorded # None /\ Alive(Recorded[1])

\* C32: the liveness probe reports the application running, with the recorded
\* PID, exactly when the PID record is there, parses and names a live process,
\* and not running otherwise.
C32_RunningIffLiveRecordedPid ==
    (api.pc = "done" /\ api.op = "status")
        => /\ is_running(App) <=> LiveRecorded
           /\ get_pid(App) = IF LiveRecorded THEN Recorded ELSE None
           /\ resp.pid = get_pid(App)

\* C33: a status summary says running, with a pid, exactly when the PID record
\* names a live process at the time of the request, whatever the runtime record
\* holds, and stopped without a pid otherwise; its uptime is 0 when it says
\* stopped and is never negative.
C33_SummaryStatusFollowsPidRecord ==
    (api.pc = "done" /\ api.op = "status")
        => /\ resp.status \in {"running", "stopped"}
           /\ (resp.status = "running" /\ resp.pid # None) <=> LiveRecorded
           /\ ~LiveRecorded => (resp.status = "stopped" /\ resp.pid = None)
           /\ resp.status = "stopped" => resp.uptime_seconds = 0
           /\ resp.uptime_seconds >= 0

\* An on-demand health check of the process kind has passed the liveness probe
\* of check_app_health and has been answered by check_health_process.
ProcessCheckAnswered ==
    /\ api.pc = "done"
    /\ api.op = "health"
    /\ App \in DOMAIN apps
    /\ ProbeKind(App) = "process"
    /\ api.outcome # EmptyDict

\* C34: the health result of the process kind is healthy exactly when the
\* liveness probe of check_health_process succeeds, and unhealthy with its
\* reason when the process has ended since the probe of check_app_health.
C34_ProcessHealthyIffProbeSucceeds ==
    ProcessCheckAnswered
        => /\ resp.status = "healthy" <=> is_running(App)
           /\ is_running(App) => resp = [status |-> "healthy"]
           /\ ~is_running(App)
                 => resp = [status |-> "unhealthy", error |-> "Process not running"]

\* The process ended between the two probes: the check answered unhealthy.
C34_Witness ==
    /\ ProcessCheckAnswered
    /\ ~is_running(App)
    /\ resp.status = "unhealthy"

\* A process of the application comes up in this step.
ComesUp == \E p \in 1..Len(procs') : procs'[p] /\ (p > Len(procs) \/ ~procs[p])

C36_HandlersNeverWriteRecords ==
    [][/\ api' # api => apps' = apps
       /\ apps' # apps => (mon' # mon /\ mon.pc \in {"store", "track", "track_stopped"})
       /\ DOMAIN apps' = DOMAIN apps]_vars

\* A health check on demand found web healthy; the runtime record still holds
\* the result stored at registration.
C36_Witness ==
    /\ api.pc = "done"
    /\ api.op = "health"
    /\ resp = [status |-> "healthy"]
    /\ apps[App].last_health = [status |-> "unknown"]

\* C37: start_time is set only by the monitor finding the application running
\* with none recorded, to the time of that step, and is cleared only by the
\* monitor finding it not running; a recorded start_time is never replaced by
\* another, so the uptime counted from it never decreases while it is recorded.
C37_StartTimeKeptWhileRunning ==
    [][LET a == apps[App].start_time
           b == apps'[App].start_time
       IN  /\ (a # b /\ b # None)
                 => (a = None /\ mon.pc = "track" /\ is_running(App) /\ b = Some(now))
           /\ (a # b /\ b = None)
                 => (mon.pc = "track_stopped" /\ ~is_running(App))
           /\ (a # None /\ b # None) => now' - b[1] >= now - a[1]]_vars

\* web was found running in two polls a second apart: its start_time is that of
\* the first.
C37_Witness ==
    /\ apps[App].start_time = Some(1)
    /\ apps[App].last_health = [status |-> "healthy", last_check |-> 2]
    /\ is_running(App)
    /\ mon.pc = "wait"

\* The monitor has completed its iteration for App.
IterationDone == mon.pc = "for" /\ mon.i = 2

\* C38: when the monitor has completed its iteration for an application, the
\* health result and the start_time it left agree: stopped goes with no
\* start_time, healthy and unhealthy with a start_time.
C38_HealthAndStartTimeAgree ==
    IterationDone
        => /\ apps[App].last_health.status = "stopped"
                 => apps[App].start_time = None
           /\ apps[App].last_health.status \in {"healthy", "unhealthy"}
                 => apps[App].start_time # None

\* The API thread is about to run a script or to send a signal, or has done so.
ActsOnProcess ==
    api.pc \in {"start_script", "stop_script", "stop_sigterm", "stop_grace",
                "stop_recheck", "stop_sigkill"}

\* C39: a start, stop or restart request that names an application the registry
\* does not hold runs no script and sends no signal.
C39_ActionsOnlyOnRegisteredApps ==
    App \notin DOMAIN apps => ~ActsOnProcess

\* The names the global manifest on disk lists, the empty one left out.
ManifestNames ==
    LET m == load_global_manifest(disk.global)
        l == IF m.kind = "dict" THEN Get(m.d, "apps", <<>>) ELSE <<>>
    IN  {app_name_of(l[i]) : i \in 1..Len(l)} \ {""}

\* Nothing is left to provision for application n.
Provisioned(n) == init_app_directories(disk.fs, n, apps[n].manifest) = Returned(disk.fs)

\* Every script of startup.d has run, in order.
StartupBatchRun ==
    LET scripts == IF disk.startup = None THEN <<>> ELSE sorted(glob(disk.startup[1]))
    IN  /\ main.pc # "startup_run"
        /\ [i \in 1..Len(ran) |-> ran[i].script] = scripts

StartupDone ==
    /\ DOMAIN apps = ManifestNames
    /\ \A n \in DOMAIN apps : Provisioned(n)
    /\ StartupBatchRun

\* C40: the monitor thread and the server thread take no step, and no client
\* reaches the control socket, before every listed application is registered
\* and provisioned and the startup batch has run; from the end of the
\* registration loop on, the registry keeps its applications and their
\* manifests.
C40_StartupOrdered ==
    [][/\ (mon' # mon \/ srv' # srv \/ client' # client) => StartupDone
       /\ (apps' # apps /\ mon' # mon) => main.pc \notin {"load", "register"}
       /\ main.pc \notin {"load", "register"}
             => /\ DOMAIN apps' = DOMAIN apps
                /\ \A n \in DOMAIN apps : apps'[n].manifest = apps[n].manifest]_vars

\* After a startup that registered web with directories and a default config
\* and ran the startup script, the monitor has polled and a request was answered.
C40_Witness ==
    /\ main.pc = "ready"
    /\ DOMAIN apps = {App}
    /\ "data_dirs" \in DOMAIN apps[App].manifest
    /\ disk.fs.conf[App]["app.conf"] = "default.conf"
    /\ Len(ran) = 1
    /\ "last_check" \in DOMAIN apps[App].last_health
    /\ client[1] = "answered"

====
